---- MODULE Spec2Model ----
(***************************************************************************)
(* Golden reference model of the Tritone ternary TPU: the ternary MAC, the *)
(* two GEMM engines (tools/tpu/ternary_matmul.py and                       *)
(* tools/tpu/benchmark_golden.py), the weight-stationary systolic          *)
(* simulator, the balanced-ternary codec and the TNN layer constructor.    *)
(*                                                                         *)
(* Matrices are sequences of rows, 1-based; a Python index x is the TLA+   *)
(* index x + 1.  Loop counters keep their Python (0-based) values.         *)
(***************************************************************************)
EXTENDS Integers, Sequences, FiniteSets, TLC

VARIABLES
    impl,          \* which GEMM entry point is running
    config,        \* GEMM argument, None when the caller passes no config
    activations,   \* GEMM argument, shape (M, K)
    weights,       \* GEMM argument, shape (N, K2)
    pc,            \* position inside the running GEMM call
    i, j, kk,      \* loop counters of the GEMM triple loop
    acc,           \* local accumulator of the current output cell
    output,        \* output matrix, None until np.zeros allocates it
    total_macs,    \* statistics counter
    zero_skipped,  \* statistics counter
    stats,         \* returned statistics dict, None until built
    err,           \* the exception that ended the call, "none" otherwise
    macs,          \* history: number of ternary_mac invocations so far
    mac,           \* the single-MAC harness: the call and its result
    codec,         \* the codec harness: the call and its results
    array_size,    \* systolic simulator: the array dimension R
    tile_m, tile_n, tile_k,  \* systolic simulator: origin of the current tile
    cycle,         \* systolic simulator: cycle counter inside one K-tile
    pe_weights,    \* systolic simulator: stationary weights, R x R
    pe_psums,      \* systolic simulator: partial sums, R x R
    act_buffer,    \* systolic simulator: staggered activations, R x (3R - 1)
    snapshots,     \* systolic simulator: the recorded partial-sum grids
    layer,         \* the TNN layer object and the call made on it
    fu,            \* the scalar-unit harness (reduction, nonlinear, RSQRT):
                   \* the call and its result
    model          \* the TNNModel object and the forward() call on it

gemmVars == <<impl, config, activations, weights, pc, i, j, kk, acc, output,
              total_macs, zero_skipped, stats, err, macs>>

sysVars == <<array_size, tile_m, tile_n, tile_k, cycle, pe_weights, pe_psums,
             act_buffer, snapshots>>

\* what a GEMM step leaves alone
notGemm == <<mac, codec, sysVars, layer, fu, model>>

vars == <<gemmVars, mac, codec, sysVars, layer, fu, model>>

----------------------------------------------------------------------------
(* Bounds of the explored inputs.                                          *)

MaxM == 2
MaxN == 2
MaxK == 2

\* activation values of the first row of an explored activation matrix
ActVals == {-2, 0, 3}
\* the weight domain
Trits == {-1, 0, 1}
\* weight values outside the domain, one below and one above it
BadWeights == {-2, 2}
\* accumulator widths, in trits, that a caller declares in its config
AccumulatorBits == {2}

----------------------------------------------------------------------------
(* Generic helpers over matrices.                                          *)

\* a variable that holds no value yet
None == <<>>

Rows(mat) == Len(mat)
Cols(mat) == Len(mat[1])

Zeros(m, n) == [r \in 1..m |-> [c \in 1..n |-> 0]]

RECURSIVE SumTo(_, _)
\* sum of f[1..n]
SumTo(f, n) == IF n = 0 THEN 0 ELSE SumTo(f, n - 1) + f[n]

\* conventional integer dot product of activation row r and weight row c,
\* restricted to the first n columns
Dot(A, W, r, c, n) == SumTo([k \in 1..n |-> A[r][k] * W[c][k]], n)

\* number of entries of the first n columns of weight row c equal to v
CountInRow(W, c, n, v) ==
    SumTo([k \in 1..n |-> IF W[c][k] = v THEN 1 ELSE 0], n)

\* number of entries of W equal to v
CountIn(W, v) ==
    SumTo([c \in 1..Rows(W) |-> CountInRow(W, c, Cols(W), v)], Rows(W))

MatEntries(mat) == {mat[r][c] : r \in 1..Rows(mat), c \in 1..Cols(mat)}

\* numpy: weights.min(), weights.max()
MatMin(mat) == CHOOSE v \in MatEntries(mat) : \A u \in MatEntries(mat) : v <= u
MatMax(mat) == CHOOSE v \in MatEntries(mat) : \A u \in MatEntries(mat) : v >= u

----------------------------------------------------------------------------
(* The explored operands.  The first row of a matrix ranges over every     *)
(* vector; row r is the first row rotated by r - 1 columns, shifted by     *)
(* r - 1 (activations) or cycled through the trits r - 1 times (weights),  *)
(* so that the rows of a matrix differ from one another.                   *)

Rot(k, r, n) == ((k + r - 2) % n) + 1

ActMatrix(a0, m) ==
    [r \in 1..m |-> [k \in 1..Len(a0) |-> a0[Rot(k, r, Len(a0))] + (r - 1)]]

TritCycle(w, s) == ((w + 1 + s) % 3) - 1

WeightMatrix(w0, n) ==
    [r \in 1..n |->
        [k \in 1..Len(w0) |-> TritCycle(w0[Rot(k, r, Len(w0))], r - 1)]]

\* W with the entry at (r, c) replaced by v
Poke(W, r, c, v) == [W EXCEPT ![r][c] = v]

ActMatrices(m, k) == {ActMatrix(a0, m) : a0 \in [1..k -> ActVals]}

TernaryMatrices(n, k) == {WeightMatrix(w0, n) : w0 \in [1..k -> Trits]}

\* weight matrices as a caller may pass them: ternary, or ternary but for
\* one entry outside the domain
WeightMatrices(n, k) ==
    TernaryMatrices(n, k) \cup
    {Poke(W, r, c, b) : W \in TernaryMatrices(n, k),
                        r \in 1..n, c \in 1..k, b \in BadWeights}

\* the worked scenario of the documentation: one output cell over 5 MACs
ScenarioAct == <<(<<10, 20, -15, 0, 50>>)>>
ScenarioWgt == <<(<<1, -1, 1, 0, -1>>)>>

IsTernary(W) == MatEntries(W) \subseteq Trits

----------------------------------------------------------------------------
(* The MAC units.  A result is the returned pair, or raised = TRUE when    *)
(* the call ends in an exception.                                          *)

MacResult(a, s) == [acc |-> a, skipped |-> s, raised |-> FALSE]
MacRaise(a) == [acc |-> a, skipped |-> FALSE, raised |-> TRUE]

\* ternary_mac with the weight -1 adding the activation instead of
\* subtracting it
ternary_mac_AddsOnMinusOne(activation, weight, accumulator) ==
    IF weight = 0 THEN MacResult(accumulator, TRUE)
    ELSE IF weight = -1 THEN MacResult(accumulator + activation, FALSE)
    ELSE IF weight = 1 THEN MacResult(accumulator + activation, FALSE)
    ELSE MacRaise(accumulator)

\* ternary_matmul.py, ternary_mac
ternary_mac(activation, weight, accumulator) ==
    IF weight = 0 THEN MacResult(accumulator, TRUE)
    ELSE IF weight = -1 THEN MacResult(accumulator - activation, FALSE)
    ELSE IF weight = 1 THEN MacResult(accumulator + activation, FALSE)
    ELSE MacRaise(accumulator)

\* benchmark_golden.py, class TritWeight: the 2-bit weight codes
NEG_ONE == 0
ZERO == 1
POS_ONE == 2

\* benchmark_golden.py, ternary_mac: the weight is compared with the 2-bit
\* codes of TritWeight, not with the weight values
golden_ternary_mac(activation, weight, accumulator) ==
    IF weight = ZERO \/ weight = 1 THEN MacResult(accumulator, TRUE)
    ELSE IF weight = NEG_ONE \/ weight = 0
        THEN MacResult(accumulator - activation, FALSE)
    ELSE IF weight = POS_ONE \/ weight = 2
        THEN MacResult(accumulator + activation, FALSE)
    ELSE MacResult(accumulator, TRUE)

\* ternary_matmul.py, ternary_matmul_systolic: the in-place update of one
\* processing element's partial sum
pe_mac(act_val, wgt_val, psum) ==
    IF wgt_val = 1 THEN psum + act_val
    ELSE IF wgt_val = -1 THEN psum - act_val
    ELSE psum

----------------------------------------------------------------------------
(* The GEMM engines, one MAC per step.                                     *)

Impls == {"ternary_matmul", "ternary_gemm"}

MacOf(which, activation, weight, accumulator) ==
    IF which = "ternary_matmul"
        THEN ternary_mac(activation, weight, accumulator)
        ELSE golden_ternary_mac(activation, weight, accumulator)

\* the state at the entry of a GEMM call
GemmEntry(which, A, W, cfg) ==
    /\ impl = which
    /\ config = cfg
    /\ activations = A
    /\ weights = W
    /\ pc = IF which = "ternary_matmul" THEN "validate" ELSE "shape"
    /\ i = 0 /\ j = 0 /\ kk = 0 /\ acc = 0
    /\ output = None
    /\ total_macs = 0 /\ zero_skipped = 0
    /\ stats = None
    /\ err = "none"
    /\ macs = 0

\* the weight-domain check without its lower bound
WeightsInRange_MaxOnly(W) == ~(MatMax(W) > 1)

\* ternary_matmul, lines 83-85: the weight-domain check
WeightsInRange(W) == ~(MatMin(W) < -1 \/ MatMax(W) > 1)

\* numpy: min() and max() of an array without elements raise ValueError
\* ("zero-size array to reduction operation")
IsZeroSize(mat) == MatEntries(mat) = {}

MatmulValidate ==
    /\ impl = "ternary_matmul" /\ pc = "validate"
    /\ IF IsZeroSize(weights)
          THEN pc' = "error" /\ err' = "ZeroSizeReduction"
          ELSE IF WeightsInRange(weights)
          THEN pc' = "shape" /\ err' = err
          ELSE pc' = "error" /\ err' = "InvalidWeight"
    /\ UNCHANGED <<impl, config, activations, weights, i, j, kk, acc,
                   output, total_macs, zero_skipped, stats, macs, notGemm>>

\* ternary_matmul.py, class TernaryMatMulConfig, with its defaults
TernaryMatMulConfig(m, k, n) ==
    [m |-> m, k |-> k, n |-> n, activation_bits |-> 8,
     accumulator_bits |-> 27]

\* benchmark_golden.py, class GEMMConfig, with its defaults
GEMMConfig(m, n, k) ==
    [m |-> m, n |-> n, k |-> k, use_packing |-> TRUE, use_dma |-> TRUE]

\* both engines: the K dimensions of the two operands agree
DimsAgree(A, W) == Cols(A) = Cols(W)

\* ternary_matmul, lines 87-101: shape check, output allocation, counters
MatmulShape ==
    /\ impl = "ternary_matmul" /\ pc = "shape"
    /\ IF DimsAgree(activations, weights)
          THEN /\ pc' = "loop" /\ err' = err
               /\ config' = IF config = None
                                THEN TernaryMatMulConfig(Rows(activations),
                                         Cols(activations), Rows(weights))
                                ELSE config
               /\ output' = Zeros(Rows(activations), Rows(weights))
               /\ total_macs' = 0 /\ zero_skipped' = 0
          ELSE /\ pc' = "error" /\ err' = "DimensionMismatch"
               /\ UNCHANGED <<config, output, total_macs, zero_skipped>>
    /\ UNCHANGED <<impl, activations, weights, i, j, kk, acc, stats, macs,
                   notGemm>>

\* ternary_gemm, lines 122-131: shape assertion, output allocation, counters
GemmShape ==
    /\ impl = "ternary_gemm" /\ pc = "shape"
    /\ IF DimsAgree(activations, weights)
          THEN /\ pc' = "loop" /\ err' = err
               /\ config' = IF config = None
                                THEN GEMMConfig(Rows(activations),
                                         Rows(weights), Cols(activations))
                                ELSE config
               /\ output' = Zeros(Rows(activations), Rows(weights))
               /\ zero_skipped' = 0
               /\ total_macs' =
                      Rows(activations) * Rows(weights) * Cols(activations)
          ELSE /\ pc' = "error" /\ err' = "DimensionMismatch"
               /\ UNCHANGED <<config, output, zero_skipped, total_macs>>
    /\ UNCHANGED <<impl, activations, weights, i, j, kk, acc, stats, macs,
                   notGemm>>

\* the counters after one executed MAC
CountTotal(which, t) == IF which = "ternary_matmul" THEN t + 1 ELSE t
CountSkipped(z, skipped) == IF skipped THEN z + 1 ELSE z

\* one iteration of the innermost loop (lines 108-113 / 137-141), with the
\* write of the finished cell and the advance of the outer loops
MacStep ==
    /\ pc = "loop" /\ Cols(activations) > 0
    /\ LET r == MacOf(impl, activations[i + 1][kk + 1],
                      weights[j + 1][kk + 1], acc)
           lastK == kk + 1 = Cols(activations)
           lastJ == j + 1 = Rows(weights)
           lastI == i + 1 = Rows(activations)
       IN  /\ macs' = macs + 1
           /\ IF r.raised
                 THEN /\ pc' = "error" /\ err' = "InvalidWeight"
                      /\ UNCHANGED <<i, j, kk, acc, output, total_macs,
                                     zero_skipped>>
                 ELSE /\ err' = err
                      /\ total_macs' = CountTotal(impl, total_macs)
                      /\ zero_skipped' = CountSkipped(zero_skipped, r.skipped)
                      /\ IF ~lastK
                            THEN /\ kk' = kk + 1 /\ acc' = r.acc
                                 /\ UNCHANGED <<i, j, output, pc>>
                            ELSE /\ output' =
                                        [output EXCEPT ![i + 1][j + 1] = r.acc]
                                 /\ kk' = 0
                                 /\ IF ~lastJ
                                       THEN /\ j' = j + 1 /\ acc' = 0
                                            /\ UNCHANGED <<i, pc>>
                                       ELSE IF ~lastI
                                       THEN /\ i' = i + 1 /\ j' = 0
                                            /\ acc' = 0
                                            /\ UNCHANGED pc
                                       ELSE /\ pc' = "stats" /\ acc' = r.acc
                                            /\ UNCHANGED <<i, j>>
    /\ UNCHANGED <<impl, config, activations, weights, stats, notGemm>>

\* one iteration of the j loop when K = 0 (lines 106-114 / 135-142): the
\* innermost loop has no iteration and the cell is written from acc = 0
EmptyCell ==
    /\ pc = "loop" /\ Cols(activations) = 0
    /\ LET lastJ == j + 1 = Rows(weights)
           lastI == i + 1 = Rows(activations)
       IN  /\ output' = [output EXCEPT ![i + 1][j + 1] = 0]
           /\ acc' = 0
           /\ IF ~lastJ THEN j' = j + 1 /\ UNCHANGED <<i, pc>>
              ELSE IF ~lastI THEN i' = i + 1 /\ j' = 0 /\ UNCHANGED pc
              ELSE pc' = "stats" /\ UNCHANGED <<i, j>>
    /\ UNCHANGED <<impl, config, activations, weights, kk, total_macs,
                   zero_skipped, stats, err, macs, notGemm>>

\* the skip ratio without the guard on total_macs
Ratio_Unguarded(z, t) == <<z, t>>

\* zero_skipped / total_macs if total_macs > 0 else 0, kept as the exact
\* fraction <<numerator, denominator>>
Ratio(z, t) == IF t > 0 THEN <<z, t>> ELSE <<0, 1>>

\* lines 116-123 / 144-151: the statistics dict and the return
GemmStats(which, t, z) ==
    IF which = "ternary_matmul"
        THEN [total_macs |-> t, zero_skipped |-> z,
              zero_skip_ratio |-> Ratio(z, t), effective_ops |-> t - z]
        ELSE [total_macs |-> t, zero_skipped |-> z,
              zero_skip_ratio |-> Ratio(z, t), effective_macs |-> t - z]

GemmReturn ==
    /\ pc = "stats"
    /\ stats' = GemmStats(impl, total_macs, zero_skipped)
    /\ pc' = "done"
    /\ UNCHANGED <<impl, config, activations, weights, i, j, kk, acc,
                   output, total_macs, zero_skipped, err, macs, notGemm>>

MacIdle == mac = [mode |-> "idle"]
CodecIdle == codec = [pc |-> "idle"]
LayerIdle == layer = [pc |-> "idle"]
FuIdle == fu = [pc |-> "idle"]
ModelIdle == model = [pc |-> "idle"]
SysIdle ==
    /\ array_size = 0 /\ tile_m = 0 /\ tile_n = 0 /\ tile_k = 0 /\ cycle = 0
    /\ pe_weights = None /\ pe_psums = None /\ act_buffer = None
    /\ snapshots = None

\* the config argument of a call: absent, or a config of the operands'
\* dimensions; a caller of ternary_matmul may declare a narrower accumulator
ConfigArgs(which, m, n, k) ==
    IF which = "ternary_matmul"
        THEN {None} \cup
             {[TernaryMatMulConfig(m, k, n) EXCEPT !.accumulator_bits = b] :
                  b \in AccumulatorBits}
        ELSE {None, GEMMConfig(m, n, k)}

InitGemm ==
    /\ MacIdle /\ CodecIdle /\ SysIdle /\ LayerIdle /\ FuIdle /\ ModelIdle
    /\ \E which \in Impls :
          \/ \E m \in 1..MaxM, n \in 1..MaxN, k \in 0..MaxK, k2 \in 0..MaxK :
                \E A \in ActMatrices(m, k), W \in WeightMatrices(n, k2),
                   cfg \in ConfigArgs(which, m, n, k) :
                    GemmEntry(which, A, W, cfg)
          \/ GemmEntry(which, ScenarioAct, ScenarioWgt, None)

NextGemm ==
    \/ MatmulValidate
    \/ MatmulShape
    \/ GemmShape
    \/ MacStep
    \/ EmptyCell
    \/ GemmReturn

SpecGemm == InitGemm /\ [][NextGemm]_vars

----------------------------------------------------------------------------
(* The single-MAC harness: each of the three MAC implementations applied   *)
(* to one (activation, weight, accumulator) triple.                        *)

MacActs == -2..2
MacWeights == -2..3
MacAccs == -2..2
MacUnits == {"ternary_mac", "golden_ternary_mac", "pe_mac"}

\* no GEMM call is in progress
GemmIdle ==
    /\ impl = "none" /\ config = None /\ activations = None /\ weights = None
    /\ pc = "idle"
    /\ i = 0 /\ j = 0 /\ kk = 0 /\ acc = 0
    /\ output = None /\ total_macs = 0 /\ zero_skipped = 0
    /\ stats = None /\ err = "none" /\ macs = 0

InitMac ==
    /\ GemmIdle /\ CodecIdle /\ SysIdle /\ LayerIdle /\ FuIdle /\ ModelIdle
    /\ \E u \in MacUnits, a \in MacActs, w \in MacWeights, c \in MacAccs :
          mac = [mode |-> "call", unit |-> u, activation |-> a,
                 weight |-> w, accumulator |-> c]

MacReturn(res) ==
    mac' = [mode |-> "return", unit |-> mac.unit,
            activation |-> mac.activation, weight |-> mac.weight,
            accumulator |-> mac.accumulator, res |-> res]

CallTernaryMac ==
    /\ mac.mode = "call" /\ mac.unit = "ternary_mac"
    /\ MacReturn(ternary_mac(mac.activation, mac.weight, mac.accumulator))
    /\ UNCHANGED <<gemmVars, codec, sysVars, layer, fu, model>>

CallGoldenTernaryMac ==
    /\ mac.mode = "call" /\ mac.unit = "golden_ternary_mac"
    /\ MacReturn(golden_ternary_mac(mac.activation, mac.weight,
                                    mac.accumulator))
    /\ UNCHANGED <<gemmVars, codec, sysVars, layer, fu, model>>

\* the processing element returns nothing: it leaves the new partial sum
CallPeMac ==
    /\ mac.mode = "call" /\ mac.unit = "pe_mac"
    /\ MacReturn([acc |-> pe_mac(mac.activation, mac.weight,
                                 mac.accumulator),
                  raised |-> FALSE])
    /\ UNCHANGED <<gemmVars, codec, sysVars, layer, fu, model>>

NextMac == CallTernaryMac \/ CallGoldenTernaryMac \/ CallPeMac

SpecMac == InitMac /\ [][NextMac]_vars

\* C7: every MAC step obeys one policy: weight 0 returns the accumulator
\* unchanged with skipped = true, weight +1 returns accumulator + activation
\* and weight -1 returns accumulator - activation, both with skipped =
\* false, and any other weight is reported as an error; this holds for
\* ternary_matmul.ternary_mac, benchmark_golden.ternary_mac and the
\* processing-element update of the systolic simulator.
C7_OneMacPolicy ==
    mac.mode = "return" =>
        LET hasFlag == mac.unit # "pe_mac"
        IN  /\ mac.weight = 0 =>
                  /\ ~mac.res.raised
                  /\ mac.res.acc = mac.accumulator
                  /\ hasFlag => mac.res.skipped
            /\ mac.weight = 1 =>
                  /\ ~mac.res.raised
                  /\ mac.res.acc = mac.accumulator + mac.activation
                  /\ hasFlag => ~mac.res.skipped
            /\ mac.weight = -1 =>
                  /\ ~mac.res.raised
                  /\ mac.res.acc = mac.accumulator - mac.activation
                  /\ hasFlag => ~mac.res.skipped
            /\ mac.weight \notin Trits => mac.res.raised

----------------------------------------------------------------------------
(* Properties of the GEMM engines.                                         *)

M == Rows(activations)
N == Rows(weights)
K == Cols(activations)

\* the cell (r, c) is written before the loops reach (i, j)
Written(r, c) == r - 1 < i \/ (r - 1 = i /\ c - 1 < j)

ShapeIs(mat, m, n) == Len(mat) = m /\ \A r \in 1..m : Len(mat[r]) = n

C2_GoldenGemmIsDotProduct ==
    (impl = "ternary_gemm" /\ IsTernary(weights) /\ pc = "done") =>
        /\ ShapeIs(output, M, N)
        /\ \A r \in 1..M, c \in 1..N :
              output[r][c] = Dot(activations, weights, r, c, K)

IsScenario == activations = ScenarioAct /\ weights = ScenarioWgt

\* C10: in both GEMM engines a MAC is counted as skipped exactly when its
\* weight is 0: zero_skipped = M * (number of zero entries of W); the worked
\* scenario gives output -75 and 1 skipped MAC of 5.
C10_SkippedIffZeroWeight ==
    (impl \in Impls /\ IsTernary(weights) /\ pc = "done") =>
        /\ stats.zero_skipped = M * CountIn(weights, 0)
        /\ IsScenario =>
              /\ output = <<(<<-75>>)>>
              /\ stats.zero_skipped = 1 /\ stats.total_macs = 5

\* the effective-operation count of the returned statistics
EffectiveCount == IF impl = "ternary_matmul" THEN stats.effective_ops
                  ELSE stats.effective_macs

\* C11: after every successful call of ternary_matmul and of ternary_gemm
\* on operands (M,K) and (N,K) the statistics satisfy total_macs = M*N*K,
\* 0 <= zero_skipped <= total_macs, effective count = total_macs -
\* zero_skipped, and the skip ratio is zero_skipped / total_macs, or 0 when
\* total_macs is 0.
C11_StatsInvariants ==
    (impl \in Impls /\ pc = "done") =>
        /\ stats.total_macs = M * N * K
        /\ 0 <= stats.zero_skipped
        /\ stats.zero_skipped <= stats.total_macs
        /\ EffectiveCount = stats.total_macs - stats.zero_skipped
        /\ stats.total_macs > 0 =>
              /\ stats.zero_skip_ratio[2] > 0
              /\ stats.zero_skip_ratio[1] * stats.total_macs =
                     stats.zero_skipped * stats.zero_skip_ratio[2]
        /\ stats.total_macs = 0 =>
              /\ stats.zero_skip_ratio[1] = 0
              /\ stats.zero_skip_ratio[2] > 0

\* a returned 2 x 2 x 2 product of ternary_matmul in which some, but not
\* all, MACs were skipped
C11_Witness ==
    /\ impl = "ternary_matmul" /\ pc = "done"
    /\ M = 2 /\ N = 2 /\ K = 2
    /\ stats.total_macs = 8
    /\ 0 < stats.zero_skipped /\ stats.zero_skipped < 8

RECURSIVE FitsTrits(_, _)
\* v lies in the range of n balanced trits, [-(3^n - 1)/2, (3^n - 1)/2]:
\* dropping the least significant trit rounds v / 3 to the nearest integer
FitsTrits(v, n) ==
    IF n = 0 THEN v = 0 ELSE FitsTrits((v + 1) \div 3, n - 1)

\* C12: every running partial sum and every output cell of ternary_matmul
\* lies within the accumulator range of config.accumulator_bits trits (27
\* by default): the accumulation saturates at the declared width.
C12_AccumulatorSaturates ==
    (impl = "ternary_matmul" /\ pc \in {"loop", "stats", "done"}) =>
        /\ FitsTrits(acc, config.accumulator_bits)
        /\ \A r \in 1..M, c \in 1..N :
              FitsTrits(output[r][c], config.accumulator_bits)

----------------------------------------------------------------------------
(* The balanced-ternary codec (tools/tpu/generate_test_vectors.py).        *)

MaxTrits == 4

RECURSIVE Pow3(_)
Pow3(n) == IF n = 0 THEN 1 ELSE 3 * Pow3(n - 1)

\* the largest magnitude representable in n balanced-ternary digits
MaxMagnitude(n) == (Pow3(n) - 1) \div 2

\* -MaxMagnitude(n) <= v <= MaxMagnitude(n), decided digit by digit so that
\* 3^n is never formed
Representable(v, n) == FitsTrits(v, n)

\* the explored values: every representable value of every explored width
\* and as many values beyond the widest range
CodecVals == -Pow3(MaxTrits)..Pow3(MaxTrits)

RECURSIVE EncodeLoop(_, _, _)
\* int_to_balanced_ternary, lines 45-54: the remaining n iterations of the
\* loop, from the running quotient temp and the digits appended so far
EncodeLoop(temp, n, trits) ==
    IF n = 0 THEN trits
    ELSE LET rem == temp % 3
         IN  IF rem = 0 THEN EncodeLoop(temp \div 3, n - 1, Append(trits, 0))
             ELSE IF rem = 1
                 THEN EncodeLoop(temp \div 3, n - 1, Append(trits, 1))
             ELSE EncodeLoop((temp + 1) \div 3, n - 1, Append(trits, -1))

RECURSIVE EncodeLoopNoCarry(_, _, _)
\* the loop without the carry that follows a digit -1
EncodeLoopNoCarry(temp, n, trits) ==
    IF n = 0 THEN trits
    ELSE LET rem == temp % 3
         IN  EncodeLoopNoCarry(temp \div 3, n - 1,
                 Append(trits, IF rem = 2 THEN -1 ELSE rem))

\* int_to_balanced_ternary without the carry
int_to_balanced_ternary_NoCarry(val, num_trits) ==
    [trits |-> EncodeLoopNoCarry(val, num_trits, <<>>), err |-> "none"]

\* int_to_balanced_ternary with a range check in front of the loop
int_to_balanced_ternary_RangeChecked(val, num_trits) ==
    IF Representable(val, num_trits)
    THEN [trits |-> EncodeLoop(val, num_trits, <<>>), err |-> "none"]
    ELSE [trits |-> None, err |-> "RangeError"]

\* int_to_balanced_ternary: the digits, least-significant first; the
\* function has no failing path
int_to_balanced_ternary(val, num_trits) ==
    [trits |-> EncodeLoop(val, num_trits, <<>>), err |-> "none"]

RECURSIVE DecodeLoop(_, _, _, _)
\* balanced_ternary_to_int, lines 63-65: the loop from digit index n on
DecodeLoop(trits, n, result, power) ==
    IF n > Len(trits) THEN result
    ELSE DecodeLoop(trits, n + 1, result + trits[n] * power, power * 3)

balanced_ternary_to_int(trits) == DecodeLoop(trits, 1, 0, 1)

\* trit_to_2bit_encoding: the two bits, most-significant first
trit_to_2bit_encoding(trit) ==
    IF trit = 0 THEN <<0, 0>>
    ELSE IF trit = 1 THEN <<0, 1>>
    ELSE IF trit = -1 THEN <<1, 0>>
    ELSE <<1, 1>>

\* the weight codec with the table of the digit codec
weight_to_2bit_encoding_AsTrit(weight) ==
    IF weight = 0 THEN <<0, 0>>
    ELSE IF weight = 1 THEN <<0, 1>>
    ELSE IF weight = -1 THEN <<1, 0>>
    ELSE <<1, 1>>

\* weight_to_2bit_encoding: the two bits, most-significant first
weight_to_2bit_encoding(weight) ==
    IF weight = -1 THEN <<0, 0>>
    ELSE IF weight = 0 THEN <<0, 1>>
    ELSE IF weight = 1 THEN <<1, 0>>
    ELSE <<1, 1>>

RECURSIVE BinaryOf(_, _)
\* encode_trit_vector_hex, lines 117-119: the codes of trits[n], trits[n-1],
\* ..., trits[1] concatenated (most-significant trit first)
BinaryOf(trits, n) ==
    IF n = 0 THEN <<>>
    ELSE trit_to_2bit_encoding(trits[n]) \o BinaryOf(trits, n - 1)

RECURSIVE PadTo4_Right(_)
\* the padding appended at the least-significant end
PadTo4_Right(binary) ==
    IF Len(binary) % 4 = 0 THEN binary ELSE PadTo4_Right(binary \o <<0, 0>>)

RECURSIVE PadTo4(_)
\* lines 122-123: "00" is prepended until the length is a multiple of 4
PadTo4(binary) ==
    IF Len(binary) % 4 = 0 THEN binary ELSE PadTo4(<<0, 0>> \o binary)

RECURSIVE Nibbles(_)
\* int(binary, 2) for a bit string whose length is a multiple of 4, kept
\* as its base-16 digits, most-significant first (a 27-trit word has 54
\* bits)
Nibbles(binary) ==
    IF Len(binary) = 0 THEN <<>>
    ELSE <<8 * binary[1] + 4 * binary[2] + 2 * binary[3] + binary[4]>>
             \o Nibbles(SubSeq(binary, 5, Len(binary)))

RECURSIVE StripZeros(_)
\* the digits without leading zeros, a single 0 for the value 0
StripZeros(digits) ==
    IF Len(digits) > 1 /\ digits[1] = 0 THEN StripZeros(Tail(digits))
    ELSE digits

\* hex(int(binary, 2))[2:].upper(), as digit values 0..15
HexOfBits(binary) == StripZeros(Nibbles(binary))

RECURSIVE ZFill(_, _)
\* str.zfill(width): zeros are prepended up to the width, nothing is cut
ZFill(digits, width) ==
    IF Len(digits) >= width THEN digits ELSE ZFill(<<0>> \o digits, width)

\* encode_trit_vector_hex: the hexadecimal digits, most-significant first;
\* int("", 2) raises ValueError when there is no trit at all
encode_trit_vector_hex(val, num_trits) ==
    LET trits == int_to_balanced_ternary(val, num_trits).trits
        binary == PadTo4(BinaryOf(trits, Len(trits)))
        expected_hex_len == (num_trits * 2 + 3) \div 4
    IN  IF Len(binary) = 0
            THEN [hex |-> None, err |-> "ValueError"]
            ELSE [hex |-> ZFill(HexOfBits(binary), expected_hex_len),
                  err |-> "none"]

\* benchmark_golden.py, generate_gemm_vectors, lines 573-578: the code the
\* weights.mem writer appends for one weight
weights_mem_code(w) ==
    IF w = -1 THEN <<0, 0>>
    ELSE IF w = 0 THEN <<0, 1>>
    ELSE <<1, 0>>

RECURSIVE RowBits(_, _)
\* lines 571-578: the codes of the first n weights of a row, in column order
RowBits(row, n) ==
    IF n = 0 THEN <<>> ELSE RowBits(row, n - 1) \o weights_mem_code(row[n])

RECURSIVE PadRightTo4(_)
\* lines 580-581: "00" is appended until the length is a multiple of 4
PadRightTo4(row_bits) ==
    IF Len(row_bits) % 4 = 0 THEN row_bits
    ELSE PadRightTo4(row_bits \o <<0, 0>>)

\* lines 570-583: the line written for one weight row, as hexadecimal
\* digits; int("", 2) raises ValueError for a row without columns
weights_mem_line(row) ==
    LET row_bits == PadRightTo4(RowBits(row, Len(row)))
    IN  IF Len(row_bits) = 0
            THEN [hex |-> None, err |-> "ValueError"]
            ELSE [hex |-> ZFill(HexOfBits(row_bits), Len(row_bits) \div 4),
                  err |-> "none"]

CodecOps == {"int_to_balanced_ternary", "encode_trit_vector_hex"}

\* the 2-bit codecs
CodeOps == {"trit_to_2bit_encoding", "weight_to_2bit_encoding"}

\* arguments of the 2-bit codecs: the trits and one value on each side
CodeVals == -2..2

\* generate_test_vectors.py, generate_mac_test_vectors: the activations (8
\* trits) and accumulators (27 trits) that are written as words
MacVectorWords ==
    {<<v, 8>> : v \in {0, 1, -1, 127, -128, 42, -42, 100, -100}} \cup
    {<<v, 27>> : v \in {0, 1000, -1000, 5000000, -5000000}}

MaxRowLen == 4

\* the weight rows of a weights.mem image
WeightRows == UNION {[1..k -> Trits] : k \in 0..MaxRowLen}

InitCodec ==
    /\ GemmIdle /\ MacIdle /\ SysIdle /\ LayerIdle /\ FuIdle /\ ModelIdle
    /\ \/ \E op \in CodecOps, v \in CodecVals, n \in 0..MaxTrits :
              codec = [pc |-> "call", op |-> op, val |-> v, num_trits |-> n]
       \/ \E w \in MacVectorWords :
              codec = [pc |-> "call", op |-> "encode_trit_vector_hex",
                       val |-> w[1], num_trits |-> w[2]]
       \/ \E op \in CodeOps, v \in CodeVals :
              codec = [pc |-> "call", op |-> op, val |-> v]
       \/ \E row \in WeightRows :
              codec = [pc |-> "call", op |-> "weights_mem_line",
                       row |-> row]

notCodec == <<gemmVars, mac, sysVars, layer, fu, model>>

\* a caller encodes a value
CallEncode ==
    /\ codec.pc = "call" /\ codec.op = "int_to_balanced_ternary"
    /\ LET r == int_to_balanced_ternary(codec.val, codec.num_trits)
       IN  codec' = [pc |-> "encoded", op |-> codec.op, val |-> codec.val,
                     num_trits |-> codec.num_trits,
                     trits |-> r.trits, err |-> r.err]
    /\ UNCHANGED notCodec

\* the caller decodes the digits it was given
CallDecode ==
    /\ codec.pc = "encoded" /\ codec.err = "none"
    /\ codec' = [pc |-> "decoded", op |-> codec.op, val |-> codec.val,
                 num_trits |-> codec.num_trits, trits |-> codec.trits,
                 err |-> codec.err,
                 decoded |-> balanced_ternary_to_int(codec.trits)]
    /\ UNCHANGED notCodec

\* a caller serialises a value as a memory-image word
CallEncodeHex ==
    /\ codec.pc = "call" /\ codec.op = "encode_trit_vector_hex"
    /\ LET r == encode_trit_vector_hex(codec.val, codec.num_trits)
       IN  codec' = [pc |-> "hex", op |-> codec.op, val |-> codec.val,
                     num_trits |-> codec.num_trits,
                     hex |-> r.hex, err |-> r.err]
    /\ UNCHANGED notCodec

\* a caller asks for the 2-bit code of a digit
CallTritCode ==
    /\ codec.pc = "call" /\ codec.op = "trit_to_2bit_encoding"
    /\ codec' = [pc |-> "code", op |-> codec.op, val |-> codec.val,
                 code |-> trit_to_2bit_encoding(codec.val)]
    /\ UNCHANGED notCodec

\* a caller asks for the 2-bit code of a weight
CallWeightCode ==
    /\ codec.pc = "call" /\ codec.op = "weight_to_2bit_encoding"
    /\ codec' = [pc |-> "code", op |-> codec.op, val |-> codec.val,
                 code |-> weight_to_2bit_encoding(codec.val)]
    /\ UNCHANGED notCodec

\* generate_gemm_vectors writes one line of weights.mem
WriteWeightsMemLine ==
    /\ codec.pc = "call" /\ codec.op = "weights_mem_line"
    /\ LET r == weights_mem_line(codec.row)
       IN  codec' = [pc |-> "line", op |-> codec.op, row |-> codec.row,
                     hex |-> r.hex, err |-> r.err]
    /\ UNCHANGED notCodec

NextCodec ==
    \/ CallEncode
    \/ CallDecode
    \/ CallEncodeHex
    \/ CallTritCode
    \/ CallWeightCode
    \/ WriteWeightsMemLine

SpecCodec == InitCodec /\ [][NextCodec]_vars

\* C5: for every width N >= 1 and every v with |v| <= (3^N - 1)/2, decoding
\* the digits of int_to_balanced_ternary(v, N) gives v back.
C5_RoundTrip ==
    (codec.pc = "decoded" /\ codec.num_trits >= 1
        /\ Representable(codec.val, codec.num_trits)) =>
        /\ codec.decoded = codec.val
        /\ Len(codec.trits) = codec.num_trits
        /\ \A d \in 1..Len(codec.trits) : codec.trits[d] \in Trits

\* a negative value whose digits use carries has made the round trip
C5_Witness ==
    /\ codec.pc = "decoded" /\ codec.num_trits = 3 /\ codec.val = -7
    /\ codec.trits = <<-1, 1, -1>>
    /\ codec.decoded = -7

\* C6: encoding a value that is not representable in N digits fails with a
\* range error and yields no digit sequence and no memory-image word.
C6_UnrepresentableIsRangeError ==
    (codec.pc \in {"encoded", "decoded", "hex"}
        /\ ~Representable(codec.val, codec.num_trits)) =>
        /\ codec.err = "RangeError"
        /\ codec.pc = "encoded" => codec.trits = None
        /\ codec.pc = "hex" => codec.hex = None
        /\ codec.pc # "decoded"

\* C28: for any integer v, representable or not, and any N >= 0,
\* int_to_balanced_ternary(v, N) returns exactly N digits, each in
\* {-1, 0, 1}, and never fails; decoding them with balanced_ternary_to_int
\* gives the integer of [-(3^N - 1)/2, (3^N - 1)/2] that is congruent to v
\* modulo 3^N (a value out of range is reduced silently).
C28_EncodeReducesModulo ==
    /\ (codec.pc \in {"encoded", "decoded"}
            /\ codec.op = "int_to_balanced_ternary") =>
        /\ codec.err = "none"
        /\ Len(codec.trits) = codec.num_trits
        /\ \A d \in 1..Len(codec.trits) : codec.trits[d] \in Trits
    /\ (codec.pc = "decoded" /\ codec.op = "int_to_balanced_ternary") =>
        /\ -MaxMagnitude(codec.num_trits) <= codec.decoded
        /\ codec.decoded <= MaxMagnitude(codec.num_trits)
        /\ (codec.decoded - codec.val) % Pow3(codec.num_trits) = 0

\* a value beyond the range of two digits has been encoded and decoded to
\* its residue: 5 = 9 - 4
C28_Witness ==
    /\ codec.pc = "decoded" /\ codec.op = "int_to_balanced_ternary"
    /\ codec.num_trits = 2 /\ codec.val = 5
    /\ codec.trits = <<-1, -1>>
    /\ codec.decoded = -4

\* the 2-bit field t (1 = most significant) of a word of hexadecimal digits
FieldOf(hex, t) ==
    LET d == hex[(t + 1) \div 2]
    IN  IF t % 2 = 1 THEN d \div 4 ELSE d % 4

\* C17: there are two distinct 2-bit codecs: trit_to_2bit_encoding maps 0 to
\* 00, +1 to 01, -1 to 10 and any other value to 11; weight_to_2bit_encoding
\* and the weights.mem writer map -1 to 00, 0 to 01, +1 to 10; each table is
\* injective on {-1,0,1} and the two give different codes for every trit.
C17_TwoDistinctCodecs ==
    /\ (codec.pc = "code" /\ codec.op = "trit_to_2bit_encoding") =>
           codec.code = (CASE codec.val = 0 -> <<0, 0>>
                           [] codec.val = 1 -> <<0, 1>>
                           [] codec.val = -1 -> <<1, 0>>
                           [] OTHER -> <<1, 1>>)
    /\ (codec.pc = "code" /\ codec.op = "weight_to_2bit_encoding"
            /\ codec.val \in Trits) =>
           codec.code = (CASE codec.val = -1 -> <<0, 0>>
                           [] codec.val = 0 -> <<0, 1>>
                           [] codec.val = 1 -> <<1, 0>>)
    /\ (codec.pc = "line" /\ Len(codec.row) >= 1) =>
           \A t \in 1..Len(codec.row) :
               FieldOf(codec.hex, t) = codec.row[t] + 1
    /\ \A a \in Trits, b \in Trits :
           a # b => /\ trit_to_2bit_encoding(a) # trit_to_2bit_encoding(b)
                    /\ weight_to_2bit_encoding(a) # weight_to_2bit_encoding(b)
    /\ \A t \in Trits :
           /\ trit_to_2bit_encoding(t) # weight_to_2bit_encoding(t)
           /\ weights_mem_code(t) = weight_to_2bit_encoding(t)

\* the weight codec has returned the code of the weight -1
C17_Witness ==
    /\ codec.pc = "code" /\ codec.op = "weight_to_2bit_encoding"
    /\ codec.val = -1 /\ codec.code = <<0, 0>>

\* the digit a 2-bit field stands for in the digit codec
TritOfCode(c) == CASE c = 1 -> 1 [] c = 2 -> -1 [] OTHER -> 0

RECURSIVE FieldsValue(_, _, _)
\* the value of the fields from..to read as balanced-ternary digits, the
\* most significant first
FieldsValue(hex, from, to) ==
    IF to < from THEN 0
    ELSE 3 * FieldsValue(hex, from, to - 1) + TritOfCode(FieldOf(hex, to))

\* C18: for every v representable in N >= 1 trits, encode_trit_vector_hex(v,
\* N) returns exactly ceil(2N/4) hexadecimal characters (4 for N = 8, 14 for
\* N = 27) spelling the N digit codes of v with the most-significant trit
\* first; the padding is zero bits at the most-significant end, and no
\* 2-bit field is the invalid code 11.
C18_HexWordLayout ==
    (codec.pc = "hex" /\ codec.num_trits >= 1
        /\ Representable(codec.val, codec.num_trits)) =>
        LET n == codec.num_trits
            len == Len(codec.hex)
        IN  /\ codec.err = "none"
            /\ len = (2 * n + 3) \div 4
            /\ n = 8 => len = 4
            /\ n = 27 => len = 14
            /\ \A t \in 1..(2 * len) : FieldOf(codec.hex, t) # 3
            /\ \A t \in 1..(2 * len - n) : FieldOf(codec.hex, t) = 0
            /\ FieldsValue(codec.hex, 2 * len - n + 1, 2 * len) = codec.val

\* a 27-trit accumulator has been written as a word of 14 characters
C18_Witness ==
    /\ codec.pc = "hex" /\ codec.num_trits = 27 /\ codec.val = 5000000
    /\ Len(codec.hex) = 14 /\ codec.hex[1] < 4

\* C19: each line of weights.mem is one weight row: the weight codes (-1 to
\* 00, 0 to 01, +1 to 10) in column order with the first column in the
\* most-significant bits, right-padded to a 4-bit boundary with the code of
\* the weight 0 (01), for every K >= 1 including odd K.
C19_WeightsMemRowLayout ==
    (codec.pc = "line" /\ Len(codec.row) >= 1) =>
        LET k == Len(codec.row)
            len == Len(codec.hex)
        IN  /\ codec.err = "none"
            /\ len = (2 * k + 3) \div 4
            /\ \A t \in 1..k : FieldOf(codec.hex, t) = codec.row[t] + 1
            /\ \A t \in (k + 1)..(2 * len) : FieldOf(codec.hex, t) = 1

----------------------------------------------------------------------------
(* The weight-stationary systolic simulator (ternary_matmul.py,            *)
(* ternary_matmul_systolic), one simulated cycle per step.                 *)

SysMaxM == 3
SysMaxN == 3
SysMaxK == 3

\* the array dimensions explored
ArraySizes == {2, 4}

\* activation values of the first row of an operand of the simulator
SysActVals == {-2, 3}

SysActMatrices(m, k) == {ActMatrix(a0, m) : a0 \in [1..k -> SysActVals]}

Min(a, b) == IF a < b THEN a ELSE b

RECURSIVE MatmulCell(_, _, _, _, _)
\* ternary_matmul, lines 106-110: the accumulator of cell (r, c) after the
\* MACs k = 0..n-1, starting from 0
MatmulCell(A, W, r, c, n) ==
    IF n = 0 THEN 0
    ELSE ternary_mac(A[r][n], W[c][n], MatmulCell(A, W, r, c, n - 1)).acc

\* ternary_matmul, lines 104-114: the output matrix for ternary W
MatmulOutput(A, W) ==
    [r \in 1..Rows(A) |-> [c \in 1..Rows(W) |-> MatmulCell(A, W, r, c, Cols(A))]]

notSys == <<config, i, j, kk, acc, total_macs, zero_skipped, stats, err,
            macs, mac, codec, layer, fu, model>>

InitSys ==
    /\ MacIdle /\ CodecIdle /\ LayerIdle /\ FuIdle /\ ModelIdle
    /\ impl = "ternary_matmul_systolic" /\ pc = "enter"
    /\ config = None
    /\ i = 0 /\ j = 0 /\ kk = 0 /\ acc = 0
    /\ total_macs = 0 /\ zero_skipped = 0
    /\ stats = None /\ err = "none" /\ macs = 0
    /\ output = None
    /\ tile_m = 0 /\ tile_n = 0 /\ tile_k = 0 /\ cycle = 0
    /\ pe_weights = None /\ pe_psums = None /\ act_buffer = None
    /\ snapshots = None
    /\ array_size \in ArraySizes
    /\ \E m \in 1..SysMaxM, n \in 1..SysMaxN, k \in 1..SysMaxK :
          /\ activations \in SysActMatrices(m, k)
          /\ weights \in TernaryMatrices(n, k)

\* lines 147-152: the output matrix and the empty snapshot list
SysEnter ==
    /\ impl = "ternary_matmul_systolic" /\ pc = "enter"
    /\ output' = Zeros(Rows(activations), Rows(weights))
    /\ snapshots' = <<>>
    /\ tile_m' = 0 /\ tile_n' = 0
    /\ pc' = "tile"
    /\ UNCHANGED <<impl, activations, weights, array_size, tile_k, cycle,
                   pe_weights, pe_psums, act_buffer, notSys>>

tile_m_end == Min(tile_m + array_size, Rows(activations))
tile_n_end == Min(tile_n + array_size, Rows(weights))
tile_k_end == Min(tile_k + array_size, Cols(activations))

\* the stationary weights loaded with rows and columns exchanged
LoadWeights_Transposed(W, R, tn, tn_end, k) ==
    [r \in 1..R |-> [c \in 1..R |->
        IF c <= tn_end - tn /\ r <= Min(R, k) THEN W[tn + c][r] ELSE 0]]

\* lines 164-167: the stationary weights of the tile; row r of the grid
\* holds weight row tile_n + r, column c holds weight column c
LoadWeights(W, R, tn, tn_end, k) ==
    [r \in 1..R |-> [c \in 1..R |->
        IF r <= tn_end - tn /\ c <= Min(R, k) THEN W[tn + r][c] ELSE 0]]

\* lines 157-167: a new (M-tile, N-tile) pair
SysTileStart ==
    /\ impl = "ternary_matmul_systolic" /\ pc = "tile"
    /\ pe_weights' = LoadWeights(weights, array_size, tile_n, tile_n_end,
                                 Cols(activations))
    /\ pe_psums' = Zeros(array_size, array_size)
    /\ tile_k' = 0
    /\ pc' = "ktile"
    /\ UNCHANGED <<impl, activations, weights, output, array_size, tile_m,
                   tile_n, cycle, act_buffer, snapshots, notSys>>

\* the diagonal wavefront alone
CyclesPerTile_WavefrontOnly(R) == R + R - 1

\* num_cycles + array_size, the cycles simulated per K-tile (line 185)
CyclesPerTile(R) == (R + R - 1) + R

\* lines 177-182: the staggered activations; row r is delayed by r columns
StaggerActs(A, R, tm, tm_end, tk, tk_end) ==
    [r \in 1..R |-> [c \in 1..(R + (R + R - 1)) |->
        IF r <= tm_end - tm /\ c - r >= 0 /\ c - r < tk_end - tk
            THEN A[tm + r][tk + (c - r) + 1]
            ELSE 0]]

\* lines 170-182: a new K-tile
SysKTileStart ==
    /\ impl = "ternary_matmul_systolic" /\ pc = "ktile"
    /\ act_buffer' = StaggerActs(activations, array_size, tile_m, tile_m_end,
                                 tile_k, tile_k_end)
    /\ cycle' = 0
    /\ pc' = "cycle"
    /\ UNCHANGED <<impl, activations, weights, output, array_size, tile_m,
                   tile_n, tile_k, pe_weights, pe_psums, snapshots, notSys>>

\* line 191: the processing element of column col (1-based) is updated in
\* cycle cy
PeUpdated(buf, col, cy) == cy >= col - 1 /\ cy - (col - 1) < Len(buf[1])

\* the buffer entry read without the delay of the column
act_val_NoColumnDelay(buf, row, col, cy) == buf[row][cy + 1]

\* line 192: act_val, the buffer entry the processing element (row, col)
\* reads in cycle cy
act_val(buf, row, col, cy) == buf[row][cy - (col - 1) + 1]

\* lines 189-199: the partial sums after the updates of cycle cy; row and
\* col are the 1-based indices of the processing element
UpdatePEs(psums, buf, wts, R, cy) ==
    [row \in 1..R |-> [col \in 1..R |->
        IF PeUpdated(buf, col, cy)
            THEN pe_mac(act_val(buf, row, col, cy),
                        wts[col][Min(cy - (col - 1), R - 1) + 1],
                        psums[row][col])
            ELSE psums[row][col]]]

\* the grid as it stands after the updates of the cycle
TakeSnapshot_AfterUpdates(psums, buf, wts, R, cy) ==
    UpdatePEs(psums, buf, wts, R, cy)

\* line 186: snapshot = pe_psums.copy(), taken before the updates of the
\* cycle
TakeSnapshot(psums, buf, wts, R, cy) == psums

\* lines 185-201: one simulated cycle, with the advance of the K-tile loop
SysCycle ==
    /\ impl = "ternary_matmul_systolic" /\ pc = "cycle"
    /\ snapshots' = Append(snapshots,
                           TakeSnapshot(pe_psums, act_buffer, pe_weights,
                                        array_size, cycle))
    /\ pe_psums' = UpdatePEs(pe_psums, act_buffer, pe_weights, array_size,
                             cycle)
    /\ IF cycle + 1 < CyclesPerTile(array_size)
          THEN cycle' = cycle + 1 /\ UNCHANGED <<tile_k, pc>>
          ELSE /\ cycle' = cycle
               /\ IF tile_k + array_size < Cols(activations)
                     THEN tile_k' = tile_k + array_size /\ pc' = "ktile"
                     ELSE tile_k' = tile_k /\ pc' = "extract"
    /\ UNCHANGED <<impl, activations, weights, output, array_size, tile_m,
                   tile_n, pe_weights, act_buffer, notSys>>

\* lines 204-206: the tile's block of the output
ExtractTile(out, psums, tm, tm_end, tn, tn_end) ==
    [r \in 1..Len(out) |-> [c \in 1..Len(out[r]) |->
        IF r > tm /\ r <= tm_end /\ c > tn /\ c <= tn_end
            THEN psums[r - tm][c - tn]
            ELSE out[r][c]]]

\* lines 203-206 with the advance of the two tile loops, and the return
SysExtract ==
    /\ impl = "ternary_matmul_systolic" /\ pc = "extract"
    /\ output' = ExtractTile(output, pe_psums, tile_m, tile_m_end,
                             tile_n, tile_n_end)
    /\ IF tile_n + array_size < Rows(weights)
          THEN tile_n' = tile_n + array_size /\ pc' = "tile"
               /\ UNCHANGED tile_m
          ELSE IF tile_m + array_size < Rows(activations)
          THEN tile_m' = tile_m + array_size /\ tile_n' = 0 /\ pc' = "tile"
          ELSE pc' = "done" /\ UNCHANGED <<tile_m, tile_n>>
    /\ UNCHANGED <<impl, activations, weights, array_size, tile_k, cycle,
                   pe_weights, pe_psums, act_buffer, snapshots, notSys>>

NextSys == SysEnter \/ SysTileStart \/ SysKTileStart \/ SysCycle \/ SysExtract

SpecSys == InitSys /\ [][NextSys]_vars

FitsOneTile == M <= array_size /\ N <= array_size /\ K <= array_size

\* C3: for R in {2,4,8} and operands that fit one tile, the output returned
\* by ternary_matmul_systolic equals the output of ternary_matmul in every
\* cell.
C3_SystolicEqualsGemmOneTile ==
    (impl = "ternary_matmul_systolic" /\ pc = "done"
        /\ array_size \in {2, 4, 8} /\ FitsOneTile /\ IsTernary(weights)) =>
        output = MatmulOutput(activations, weights)

\* C4: for operands larger than the array the tiles are iterated over M, N
\* and K, each K-tile's activations meeting that K-tile's weights, and the
\* full output equals the output of ternary_matmul.
C4_SystolicEqualsGemmTiled ==
    (impl = "ternary_matmul_systolic" /\ pc = "done"
        /\ ~FitsOneTile /\ IsTernary(weights)) =>
        output = MatmulOutput(activations, weights)

\* the 1-based output rows that are the first row of an M-tile (0-based
\* rows 0, R, 2R, ...)
FirstRowsOfTiles == {r \in 1..Rows(activations) : (r - 1) % array_size = 0}

\* C29: for K <= R, any M and N, and weights in {-1, 0, 1}, the first row of
\* every M-tile of the output of ternary_matmul_systolic (output rows 0, R,
\* 2R, ...) equals the same row of the output of ternary_matmul; hence for a
\* single activation row (M = 1) the two outputs are equal.
C29_FirstRowOfEachTileEqualsGemm ==
    (impl = "ternary_matmul_systolic" /\ pc = "done"
        /\ Cols(activations) <= array_size /\ IsTernary(weights)) =>
        /\ \A r \in FirstRowsOfTiles :
               output[r] = MatmulOutput(activations, weights)[r]
        /\ Rows(activations) = 1 =>
               output = MatmulOutput(activations, weights)

\* three activation rows on an array of two rows, two N-tiles, K = R: the
\* rows 0 and 2 of the output are those of the product, the row 1 is not
C29_Witness ==
    /\ impl = "ternary_matmul_systolic" /\ pc = "done"
    /\ array_size = 2 /\ Rows(activations) = 3 /\ Rows(weights) = 3
    /\ Cols(activations) = 2 /\ IsTernary(weights)
    /\ FirstRowsOfTiles = {1, 3}
    /\ output[1] = MatmulOutput(activations, weights)[1]
    /\ output[3] = MatmulOutput(activations, weights)[3]
    /\ output[2] # MatmulOutput(activations, weights)[2]
    /\ \E c \in 1..3 : output[1][c] # 0

\* generate_systolic_test_vectors, line 343: activations =
\* np.arange(1, R * R + 1).reshape(R, R), row and col 0-based
StreamActivation(R, row, col) == row * R + col + 1

\* lines 366-372: the value written for a row in a cycle of the activation
\* stream
activation_stream_val(R, cy, row) ==
    LET col == cy - row
    IN  IF 0 <= col /\ col < R THEN StreamActivation(R, row, col) ELSE 0

\* line 373: the word written, encode_trit_vector_hex(int(val), 8)
activation_stream_word(R, cy, row) ==
    encode_trit_vector_hex(activation_stream_val(R, cy, row), 8).hex

\* the activation the processing element (row, col), 1-based, consumes in
\* the cycle about to be simulated; 0 when it consumes none
Consumed(row, col) ==
    IF PeUpdated(act_buffer, col, cycle)
        THEN act_val(act_buffer, row, col, cycle)
        ELSE 0

\* the activation of input column idx (0-based, within the K-tile) of the
\* activation row of grid row `row`; 0 when there is none
TileActivation(row, idx) ==
    IF row <= tile_m_end - tile_m /\ 0 <= idx /\ idx < tile_k_end - tile_k
        THEN activations[tile_m + row][tile_k + idx + 1]
        ELSE 0

\* the activation stream of generate_systolic_test_vectors at the current
\* cycle: row r carries activation (r, cycle - r) when that column exists,
\* and activation (r, j) is written at cycle r + j and at no other
StreamStaggeredByRow ==
    \A r \in 0..(array_size - 1) :
        /\ activation_stream_word(array_size, cycle, r) =
               encode_trit_vector_hex(
                   IF 0 <= cycle - r /\ cycle - r < array_size
                       THEN StreamActivation(array_size, r, cycle - r)
                       ELSE 0, 8).hex
        /\ \A jj \in 0..(array_size - 1) :
               (activation_stream_word(array_size, cycle, r) =
                    encode_trit_vector_hex(
                        StreamActivation(array_size, r, jj), 8).hex)
                   <=> cycle = r + jj

\* C25 as stated: within one K-tile, at simulated cycle c the processing
\* element in row r (of any column) consumes the activation of input column
\* c - r of its activation row when 0 <= c - r < K and none otherwise, in
\* ternary_matmul_systolic and in the stream of
\* generate_systolic_test_vectors.
C25_StaggerByRowOnly ==
    (impl = "ternary_matmul_systolic" /\ pc = "cycle") =>
        /\ \A row \in 1..array_size, col \in 1..array_size :
               Consumed(row, col) = TileActivation(row, cycle - (row - 1))
        /\ StreamStaggeredByRow

\* C25: within one K-tile, at simulated cycle c the processing element in
\* row r and column k consumes the activation of input column c - r - k of
\* its activation row when 0 <= c - r - k < K and none otherwise (the
\* stagger of the row plus the delay of the column; c - r in column 0); in
\* the stream of generate_systolic_test_vectors, which feeds column 0,
\* activation (r, j) appears exactly once, at cycle r + j.
C25_StaggerByRowAndColumn ==
    (impl = "ternary_matmul_systolic" /\ pc = "cycle") =>
        /\ \A row \in 1..array_size, col \in 1..array_size :
               Consumed(row, col) =
                   TileActivation(row, cycle - (row - 1) - (col - 1))
        /\ StreamStaggeredByRow

\* in cycle 2 the element of row 1, column 1 (0-based) is about to consume
\* the first activation of its row
C25_Witness ==
    /\ impl = "ternary_matmul_systolic" /\ pc = "cycle" /\ cycle = 2
    /\ M >= 2 /\ tile_m = 0 /\ tile_k = 0
    /\ Consumed(2, 2) = activations[2][1] /\ Consumed(2, 2) # 0

\* the number of tiles of size R that cover n rows or columns
CeilDiv(n, R) == (n + R - 1) \div R

\* the snapshots recorded before the K-tile in progress started
SnapshotsBeforeKTile ==
    (((tile_m \div array_size) * CeilDiv(N, array_size)
          + (tile_n \div array_size)) * CeilDiv(K, array_size)
         + (tile_k \div array_size)) * (3 * array_size - 1)

\* C26: for every K-tile ternary_matmul_systolic simulates a fixed number of
\* cycles, at least (R - 1) + K_tile + (R - 1), and appends one R x R
\* snapshot per simulated cycle; the returned list has length
\* ceil(M/R) * ceil(N/R) * ceil(K/R) * (3R - 1) and is ordered by M-tile,
\* then N-tile, then K-tile, then cycle.
C26_SnapshotPerCycle ==
    (impl = "ternary_matmul_systolic" /\ pc \in {"cycle", "done"}) =>
        /\ \A q \in 1..Len(snapshots) :
               /\ Len(snapshots[q]) = array_size
               /\ \A r \in 1..array_size :
                      Len(snapshots[q][r]) = array_size
        /\ pc = "cycle" =>
               /\ Len(snapshots) = SnapshotsBeforeKTile + cycle
               /\ cycle < 3 * array_size - 1
               /\ 3 * array_size - 1 >=
                      (array_size - 1) + (tile_k_end - tile_k)
                          + (array_size - 1)
        /\ pc = "done" =>
               Len(snapshots) =
                   CeilDiv(M, array_size) * CeilDiv(N, array_size)
                       * CeilDiv(K, array_size) * (3 * array_size - 1)

\* a run over two M-tiles, two N-tiles and two K-tiles has returned its
\* forty snapshots
C26_Witness ==
    /\ impl = "ternary_matmul_systolic" /\ pc = "done" /\ array_size = 2
    /\ M = 3 /\ N = 3 /\ K = 3 /\ Len(snapshots) = 40

\* the number of snapshots recorded for one (M-tile, N-tile) pair
SnapshotsPerTilePair == CeilDiv(K, array_size) * (3 * array_size - 1)

\* the 0-based number of the pair (mt, nt) in the order the tiles are run
TilePairNumber(mt, nt) == mt * CeilDiv(N, array_size) + nt

\* the last recorded snapshot is the grid as it stood before the updates of
\* the cycle simulated last
LastSnapshotPrecedesUpdates ==
    (impl = "ternary_matmul_systolic"
        /\ \/ pc = "cycle" /\ cycle > 0
           \/ pc = "ktile" /\ tile_k > 0
           \/ pc = "extract") =>
        pe_psums = UpdatePEs(snapshots[Len(snapshots)], act_buffer,
                             pe_weights, array_size,
                             IF pc = "cycle" THEN cycle - 1 ELSE cycle)

\* at the return: the first snapshot of every tile pair is all zeros, and
\* the last snapshot of its final K-tile holds the values of its output
\* sub-block
TilePairSnapshots ==
    (impl = "ternary_matmul_systolic" /\ pc = "done") =>
        \A mt \in 0..(CeilDiv(M, array_size) - 1),
           nt \in 0..(CeilDiv(N, array_size) - 1) :
            LET first == TilePairNumber(mt, nt) * SnapshotsPerTilePair + 1
                last == (TilePairNumber(mt, nt) + 1) * SnapshotsPerTilePair
            IN  /\ snapshots[first] = Zeros(array_size, array_size)
                /\ \A r \in 1..array_size, c \in 1..array_size :
                       (mt * array_size + r <= M /\ nt * array_size + c <= N)
                           => output[mt * array_size + r][nt * array_size + c]
                                  = snapshots[last][r][c]

\* a step that changes the snapshot list appends the grid of the current
\* state and leaves the recorded snapshots as they are
SnapshotsOnlyAppended ==
    (snapshots # None /\ snapshots' # snapshots) =>
        snapshots' = Append(snapshots, pe_psums)

\* C27: every snapshot returned by ternary_matmul_systolic is a copy of the
\* R x R partial-sum grid as it stood at the start of its cycle, before
\* that cycle's updates; no later cycle or tile changes a recorded
\* snapshot; the first snapshot of every (M-tile, N-tile) pair is all
\* zeros; the last snapshot of a pair's final K-tile equals the values
\* written to the output sub-block.
C27_SnapshotsAreImmutableCopies ==
    /\ [](LastSnapshotPrecedesUpdates /\ TilePairSnapshots)
    /\ [][SnapshotsOnlyAppended]_vars

\* a run over several tile pairs has returned, its penultimate snapshot not
\* all zeros
C27_Witness ==
    /\ impl = "ternary_matmul_systolic" /\ pc = "done" /\ array_size = 2
    /\ M = 3 /\ N = 3
    /\ snapshots[Len(snapshots)] # Zeros(2, 2)
    /\ snapshots[Len(snapshots) - 4] = Zeros(2, 2)

----------------------------------------------------------------------------
(* The TNN layer (tools/tpu/tnn_layer_model.py).  A (C, H, W) tensor is a  *)
(* sequence of channels, each a sequence of rows; the 4-D weight tensor is *)
(* its shape and its elements in row-major order, which is what reshape    *)
(* sees.                                                                   *)

LayMaxDim == 2
LayMaxCh == 2
LayMaxKernel == 2

Strides == {1, 2}
Paddings == {0, 1}
PoolSizes == {1, 2}
ActivationTypes == {"none", "relu", "sign", "htanh"}
PoolingTypes == {"none", "max", "avg"}

\* weight values a caller may wrongly supply; the last one is 0 modulo 2^8
LayerBadWeights == {-2, 2, 256}

\* the seeds of the ternary tensors np.random.choice may draw
RandomSeeds == {0, 1}

LayerConfigs ==
    {cfg \in [input_height : 1..LayMaxDim, input_width : 1..LayMaxDim,
              input_channels : 1..LayMaxCh, output_channels : 1..LayMaxCh,
              kernel_size : 1..LayMaxKernel, stride : Strides,
              padding : Paddings, activation : ActivationTypes,
              pooling : PoolingTypes, pool_size : PoolSizes] :
        /\ cfg.input_height + 2 * cfg.padding >= cfg.kernel_size
        /\ cfg.input_width + 2 * cfg.padding >= cfg.kernel_size
        /\ cfg.pooling = "none" => cfg.pool_size = 2}

\* the weight shape a configuration asks for
ConfigShape(cfg) ==
    <<cfg.output_channels, cfg.input_channels, cfg.kernel_size,
      cfg.kernel_size>>

ShapeSize(shape) == shape[1] * shape[2] * shape[3] * shape[4]

\* a ternary tensor of the given shape; consecutive elements differ
PatternTensor(shape, seed) ==
    [shape |-> shape,
     data |-> [x \in 1..ShapeSize(shape) |->
                  ((seed + x + (x \div 2)) % 3) - 1]]

\* the shapes that differ from the configured one in exactly one dimension
NearShapes(shape) ==
    {sh \in [1..4 -> 1..(LayMaxCh + LayMaxKernel)] :
        \E d \in 1..4 :
            /\ sh[d] # shape[d]
            /\ sh[d] <= (IF d <= 2 THEN LayMaxCh ELSE LayMaxKernel)
            /\ \A e \in (1..4) \ {d} : sh[e] = shape[e]}

\* the weights argument of the constructor: None, a ternary tensor of the
\* configured shape or of a near shape, or a tensor of the configured shape
\* with its last element outside the weight domain
WeightArgs(cfg) ==
    {None, PatternTensor(ConfigShape(cfg), 0)}
    \cup {PatternTensor(sh, 0) : sh \in NearShapes(ConfigShape(cfg))}
    \cup {[shape |-> ConfigShape(cfg),
           data |-> [PatternTensor(ConfigShape(cfg), 0).data
                        EXCEPT ![ShapeSize(ConfigShape(cfg))] = b]] :
            b \in LayerBadWeights}

\* an input tensor of shape (c, h, w) with values in -3..3
InputTensor(c, h, w) ==
    [ch \in 1..c |-> [y \in 1..h |-> [x \in 1..w |->
        ((5 * ((ch - 1) * h * w + (y - 1) * w + x)) % 7) - 3]]]

\* the input tensors offered to forward(): the configured shape, and the
\* same with height and width exchanged
InputArgs(cfg) ==
    {InputTensor(cfg.input_channels, cfg.input_height, cfg.input_width),
     InputTensor(cfg.input_channels, cfg.input_width, cfg.input_height)}

TensorShape(t) == <<Len(t), Len(t[1]), Len(t[1][1])>>

\* numpy astype(np.int8) on an integer
Int8(v) == ((v + 128) % 256) - 128

\* ternary_matmul as a callee: the whole call (lines 83-123)
SkipFlag(a, w) == IF ternary_mac(a, w, 0).skipped THEN 1 ELSE 0

MatmulSkipped(A, W) ==
    SumTo([r \in 1..Rows(A) |->
              SumTo([c \in 1..Rows(W) |->
                        SumTo([k \in 1..Cols(A) |-> SkipFlag(A[r][k], W[c][k])],
                              Cols(A))],
                    Rows(W))],
          Rows(A))

ternary_matmul(A, W) ==
    IF ~WeightsInRange(W)
        THEN [err |-> "InvalidWeight", output |-> None, stats |-> None]
    ELSE IF ~DimsAgree(A, W)
        THEN [err |-> "DimensionMismatch", output |-> None, stats |-> None]
    ELSE [err |-> "none",
          output |-> MatmulOutput(A, W),
          stats |-> GemmStats("ternary_matmul",
                              Rows(A) * Rows(W) * Cols(A),
                              MatmulSkipped(A, W))]

Transpose(mat) ==
    [c \in 1..Cols(mat) |-> [r \in 1..Rows(mat) |-> mat[r][c]]]

\* im2col, lines 87-88: an output dimension
OutDim(h, kernel_size, stride, padding) ==
    ((h + 2 * padding - kernel_size) \div stride) + 1

\* np.pad with zeros, read at the 0-based padded position (y, x)
Padded(t, ch, y, x, padding) ==
    IF /\ y - padding >= 0 /\ y - padding < Len(t[1])
       /\ x - padding >= 0 /\ x - padding < Len(t[1][1])
        THEN t[ch][y - padding + 1][x - padding + 1]
        ELSE 0

\* im2col: row (ch, ky, kx) and column (oy, ox), both flattened row-major
im2col(t, kernel_size, stride, padding) ==
    LET c == Len(t)
        oh == OutDim(Len(t[1]), kernel_size, stride, padding)
        ow == OutDim(Len(t[1][1]), kernel_size, stride, padding)
    IN  [r \in 1..(c * kernel_size * kernel_size) |->
            [q \in 1..(oh * ow) |->
                LET ch == ((r - 1) \div (kernel_size * kernel_size)) + 1
                    ky == ((r - 1) \div kernel_size) % kernel_size
                    kx == (r - 1) % kernel_size
                    oy == (q - 1) \div ow
                    ox == (q - 1) % ow
                IN  Padded(t, ch, oy * stride + ky, ox * stride + kx,
                           padding)]]

\* a reshape that reads the matrix in column-major order
col2im_ColumnMajor(col, output_channels, output_height, output_width) ==
    [ch \in 1..output_channels |-> [y \in 1..output_height |->
        [x \in 1..output_width |->
            LET n == ((ch - 1) * output_height + (y - 1)) * output_width
                         + (x - 1)
            IN  col[(n % Rows(col)) + 1][(n \div Rows(col)) + 1]]]]

\* col2im: col.reshape(channels, oh, ow) of a matrix with channels * oh * ow
\* elements, which numpy reads in row-major order
col2im(col, output_channels, output_height, output_width) ==
    [ch \in 1..output_channels |-> [y \in 1..output_height |->
        [x \in 1..output_width |->
            LET n == ((ch - 1) * output_height + (y - 1)) * output_width
                         + (x - 1)
            IN  col[(n \div Cols(col)) + 1][(n % Cols(col)) + 1]]]]

Relu(v) == IF v > 0 THEN v ELSE 0
Sign(v) == IF v > 0 THEN 1 ELSE IF v < 0 THEN -1 ELSE 0
\* np.clip(data, -scale, scale) with the default scale = 1.0
HTanh(v) == IF v > 1 THEN 1 ELSE IF v < -1 THEN -1 ELSE v

\* apply_activation on one element
Activate(v, activation) ==
    IF activation = "none" THEN v
    ELSE IF activation = "relu" THEN Relu(v)
    ELSE IF activation = "sign" THEN Sign(v)
    ELSE HTanh(v)

\* apply_activation; hard-tanh turns the tensor into a floating-point one
apply_activation(t, activation) ==
    [ch \in 1..Len(t) |-> [y \in 1..Len(t[ch]) |->
        [x \in 1..Len(t[ch][y]) |-> Activate(t[ch][y][x], activation)]]]

\* integer division that truncates toward zero (a float stored in an
\* integer array)
TruncDiv(a, b) == IF a >= 0 THEN a \div b ELSE -((-a) \div b)

\* the values of the window of channel ch whose 0-based origin is
\* (y * p, x * p)
Window(t, ch, y, x, p) ==
    [q \in 1..(p * p) |->
        t[ch][y * p + ((q - 1) \div p) + 1][x * p + ((q - 1) % p) + 1]]

SeqMax(f) == CHOOSE v \in {f[q] : q \in DOMAIN f} :
                 \A q \in DOMAIN f : f[q] <= v

\* np.mean of a window stored into an array of the input's dtype: truncated
\* toward zero in an integer array, exact in a floating-point one (kept as
\* an integer when it is one, as <<numerator, denominator>> otherwise)
MeanAs(f, isFloat) ==
    LET total == SumTo(f, Len(f))
    IN  IF ~isFloat THEN TruncDiv(total, Len(f))
        ELSE IF total % Len(f) = 0 THEN total \div Len(f)
        ELSE <<total, Len(f)>>

\* apply_pooling on a (C, H, W) tensor
apply_pooling(t, pooling, pool_size, isFloat) ==
    IF pooling = "none" THEN t
    ELSE [ch \in 1..Len(t) |->
            [y \in 1..(Len(t[1]) \div pool_size) |->
                [x \in 1..(Len(t[1][1]) \div pool_size) |->
                    IF pooling = "max"
                        THEN SeqMax(Window(t, ch, y - 1, x - 1, pool_size))
                        ELSE MeanAs(Window(t, ch, y - 1, x - 1, pool_size),
                                    isFloat)]]]

\* a float64 that is the ratio of two small integers, the denominator a power
\* of two: such values, their products with small integers and their sums
\* are exact in float64
Frac(n, d) == [num |-> n, den |-> d]

\* the float row x * scale + threshold stored back into the int64 matrix
\* (line 285): numpy casts it on assignment, truncating toward zero
StoreAffine(x, scale, threshold) ==
    TruncDiv(x * scale.num * threshold.den + threshold.num * scale.den,
             scale.den * threshold.den)

\* the per-channel arguments of set_batch_norm.  var is held as the float64
\* sum var + eps, which is exactly 1.0 for var = 0.99999 and exactly 4.0 for
\* var = 3.99999, so that std = np.sqrt(var + eps) is exactly 1.0 or 2.0
BatchNormChannels ==
    <<[mean |-> 1, var_eps |-> 4, gamma |-> 1, beta |-> 0],
      [mean |-> 1, var_eps |-> 1, gamma |-> 2, beta |-> 1]>>

\* the argument arrays offered to set_batch_norm for oc output channels
BatchNormArgs(oc) ==
    {[ch \in 1..oc |->
         BatchNormChannels[((k + ch) % Len(BatchNormChannels)) + 1]] :
        k \in 1..Len(BatchNormChannels)}

\* np.sqrt(var + eps), line 243
BnStd(var_eps) == IF var_eps = 1 THEN 1 ELSE 2

\* TNNLayer.set_batch_norm, lines 231-245: the two arrays it assigns
set_batch_norm(args) ==
    [bn_scale |->
         [ch \in DOMAIN args |->
             Frac(args[ch].gamma, BnStd(args[ch].var_eps))],
     bn_threshold |->
         [ch \in DOMAIN args |->
             Frac(args[ch].beta * BnStd(args[ch].var_eps)
                      - args[ch].gamma * args[ch].mean,
                  BnStd(args[ch].var_eps))]]

\* TNNLayer.__init__, lines 209-229, from the weight tensor it ends up with
LayerConstruct(cfg, w) ==
    LET w8 == [shape |-> w.shape,
               data |-> [x \in 1..Len(w.data) |-> Int8(w.data[x])]]
        size == Len(w8.data)
        oc == cfg.output_channels
    IN  IF \E x \in 1..size : w8.data[x] \notin {-1, 0, 1}
            THEN [pc |-> "init_raised", err |-> "AssertionError",
                  config |-> cfg]
        ELSE IF size % oc # 0
            THEN [pc |-> "init_raised", err |-> "ValueError", config |-> cfg]
        ELSE [pc |-> "constructed", err |-> "none", config |-> cfg,
              weights |-> w8,
              weights_mat |->
                  [r \in 1..oc |-> [c \in 1..(size \div oc) |->
                      w8.data[(r - 1) * (size \div oc) + c]]],
              bn_threshold |-> [ch \in 1..oc |-> Frac(0, 1)],
              bn_scale |-> [ch \in 1..oc |-> Frac(1, 1)]]

\* TNNLayer.forward, lines 247-300, on a constructed layer
LayerForward(self, input_data) ==
    LET cfg == self.config
        col == im2col(input_data, cfg.kernel_size, cfg.stride, cfg.padding)
        g == ternary_matmul(Transpose(col), self.weights_mat)
        oh == OutDim(cfg.input_height, cfg.kernel_size, cfg.stride,
                     cfg.padding)
        ow == OutDim(cfg.input_width, cfg.kernel_size, cfg.stride,
                     cfg.padding)
        normed == [ch \in 1..cfg.output_channels |->
                      [q \in 1..(oh * ow) |->
                          StoreAffine(g.output[q][ch], self.bn_scale[ch],
                                      self.bn_threshold[ch])]]
        pre == col2im(normed, cfg.output_channels, oh, ow)
        act == apply_activation(pre, cfg.activation)
        out == apply_pooling(act, cfg.pooling, cfg.pool_size,
                             cfg.activation = "htanh")
    IN  IF TensorShape(input_data) #
               <<cfg.input_channels, cfg.input_height, cfg.input_width>>
            THEN [err |-> "AssertionError", out |-> None, stats |-> None]
        ELSE IF g.err # "none"
            THEN [err |-> g.err, out |-> None, stats |-> None]
        ELSE [err |-> "none", out |-> out, stats |-> g.stats]

notLayer == <<gemmVars, mac, codec, sysVars, fu, model>>

InitLayer ==
    /\ GemmIdle /\ MacIdle /\ CodecIdle /\ SysIdle /\ FuIdle /\ ModelIdle
    /\ \E cfg \in LayerConfigs :
          \E w \in WeightArgs(cfg) :
              layer = [pc |-> "new", config |-> cfg, weights_arg |-> w]

\* TNNLayer(config, weights) with a weight tensor supplied
ConstructWithWeights ==
    /\ layer.pc = "new" /\ layer.weights_arg # None
    /\ layer' = LayerConstruct(layer.config, layer.weights_arg)
                 @@ [weights_arg |-> layer.weights_arg]
    /\ UNCHANGED notLayer

\* TNNLayer(config): the weights are drawn at random
ConstructRandom ==
    /\ layer.pc = "new" /\ layer.weights_arg = None
    /\ \E seed \in RandomSeeds :
          layer' = LayerConstruct(layer.config,
                       PatternTensor(ConfigShape(layer.config), seed))
                   @@ [weights_arg |-> None]
    /\ UNCHANGED notLayer

\* layer.set_batch_norm(mean, var, gamma, beta) on a constructed layer
SetBatchNorm ==
    /\ layer.pc = "constructed"
    /\ \E args \in BatchNormArgs(layer.config.output_channels) :
          layer' = [layer EXCEPT
                       !.bn_scale = set_batch_norm(args).bn_scale,
                       !.bn_threshold = set_batch_norm(args).bn_threshold]
    /\ UNCHANGED notLayer

\* layer.forward(input_data) on a constructed layer
Forward ==
    /\ layer.pc = "constructed"
    /\ \E x \in InputArgs(layer.config) :
          LET r == LayerForward(layer, x)
          IN  layer' = [pc |-> IF r.err = "none" THEN "forward_returned"
                                                 ELSE "forward_raised",
                        err |-> r.err, config |-> layer.config,
                        weights_arg |-> layer.weights_arg,
                        weights |-> layer.weights,
                        weights_mat |-> layer.weights_mat,
                        bn_threshold |-> layer.bn_threshold,
                        bn_scale |-> layer.bn_scale,
                        input_data |-> x, out |-> r.out, stats |-> r.stats]
    /\ UNCHANGED notLayer

NextLayer ==
    ConstructWithWeights \/ ConstructRandom \/ SetBatchNorm \/ Forward

SpecLayer == InitLayer /\ [][NextLayer]_vars

\* C9: a disagreement of the K dimension is rejected before any MAC is
\* executed: a GEMM call whose operands disagree on K ends with the
\* dimension-mismatch error without reaching the loops, and a TNNLayer
\* whose supplied weight tensor does not have the configured shape
\* (output_channels, input_channels, kernel_size, kernel_size) is rejected
\* by the constructor, so it is never constructed and never runs forward().
C9_KMismatchFailsFast ==
    /\ (impl \in Impls /\ ~DimsAgree(activations, weights)) =>
          /\ macs = 0
          /\ pc \in {"validate", "shape", "error"}
          /\ (pc = "error" /\ IsTernary(weights) /\ ~IsZeroSize(weights)) =>
              err = "DimensionMismatch"
    /\ (layer.pc \in {"init_raised", "constructed", "forward_returned",
                      "forward_raised"}
           /\ layer.weights_arg # None
           /\ layer.weights_arg.shape # ConfigShape(layer.config)) =>
          layer.pc = "init_raised"

\* the GEMM half of C9 alone
GemmKMismatchFailsFast ==
    (impl \in Impls /\ ~DimsAgree(activations, weights)) =>
        /\ macs = 0
        /\ pc \in {"validate", "shape", "error"}
        /\ (pc = "error" /\ IsTernary(weights) /\ ~IsZeroSize(weights)) =>
              err = "DimensionMismatch"

\* W[oc, ic, ky, kx] of the layer's weight tensor, ky and kx 0-based
WeightAt(self, oc, ic, ky, kx) ==
    LET k == self.config.kernel_size
    IN  self.weights.data[
            (((oc - 1) * self.config.input_channels + (ic - 1)) * k + ky) * k
                + kx + 1]

\* conv[oc, oy, ox]: the sum over ic, ky, kx of W[oc, ic, ky, kx] *
\* xpad[ic, oy * stride + ky, ox * stride + kx] on the zero-padded input
Conv(self, x) ==
    LET cfg == self.config
        k == cfg.kernel_size
        oh == OutDim(cfg.input_height, k, cfg.stride, cfg.padding)
        ow == OutDim(cfg.input_width, k, cfg.stride, cfg.padding)
    IN  [oc \in 1..cfg.output_channels |-> [oy \in 1..oh |-> [ox \in 1..ow |->
            SumTo([ic \in 1..cfg.input_channels |->
                SumTo([ky \in 1..k |->
                    SumTo([kx \in 1..k |->
                        WeightAt(self, oc, ic, ky - 1, kx - 1)
                            * Padded(x, ic, (oy - 1) * cfg.stride + ky - 1,
                                     (ox - 1) * cfg.stride + kx - 1,
                                     cfg.padding)], k)], k)],
                cfg.input_channels)]]]

\* scale * v + threshold of channel ch as an exact ratio: its numerator over
\* the denominator AffineDen
AffineNum(self, t) ==
    [ch \in 1..Len(t) |-> [y \in 1..Len(t[ch]) |->
        [x \in 1..Len(t[ch][y]) |->
            t[ch][y][x] * self.bn_scale[ch].num * self.bn_threshold[ch].den
                + self.bn_threshold[ch].num * self.bn_scale[ch].den]]]

AffineDen(self, ch) == self.bn_scale[ch].den * self.bn_threshold[ch].den

\* every scale * v + threshold is an integer
AffineIntegral(self, t) ==
    \A ch \in 1..Len(t) : \A y \in 1..Len(t[ch]) :
        \A x \in 1..Len(t[ch][y]) :
            AffineNum(self, t)[ch][y][x] % AffineDen(self, ch) = 0

IsIdentityBatchNorm(self) ==
    \A ch \in 1..self.config.output_channels :
        self.bn_scale[ch] = Frac(1, 1) /\ self.bn_threshold[ch] = Frac(0, 1)

\* pooling(activation(scale * conv + threshold)) where every affine value
\* is an integer
PipelineOfIntegral(self, conv) ==
    LET cfg == self.config
        num == AffineNum(self, conv)
        exact == [ch \in 1..Len(num) |-> [y \in 1..Len(num[ch]) |->
                     [x \in 1..Len(num[ch][y]) |->
                         num[ch][y][x] \div AffineDen(self, ch)]]]
    IN  apply_pooling(apply_activation(exact, cfg.activation), cfg.pooling,
                      cfg.pool_size, cfg.activation = "htanh")

\* the activations and poolings that commute with the multiplication of a
\* channel by a positive constant (the sign activation absorbs it)
ScalesThrough(cfg) ==
    cfg.activation \in {"none", "relu", "sign"}
        /\ cfg.pooling \in {"none", "max"}

\* out equals pooling(activation(scale * conv + threshold)), compared after
\* multiplying each channel by its denominator
EqualsExactPipeline(self, out, conv) ==
    LET cfg == self.config
        scaled == apply_pooling(
                      apply_activation(AffineNum(self, conv), cfg.activation),
                      cfg.pooling, cfg.pool_size, FALSE)
    IN  /\ Len(out) = Len(scaled)
        /\ \A ch \in 1..Len(out) :
               /\ Len(out[ch]) = Len(scaled[ch])
               /\ \A y \in 1..Len(out[ch]) :
                      Len(out[ch][y]) = Len(scaled[ch][y])
        /\ \A ch \in 1..Len(out) : \A y \in 1..Len(out[ch]) :
               \A x \in 1..Len(out[ch][y]) :
                   scaled[ch][y][x] =
                       IF cfg.activation = "sign" THEN out[ch][y][x]
                       ELSE out[ch][y][x] * AffineDen(self, ch)

\* C20: TNNLayer.forward(x) equals pooling(activation(conv)) with the default
\* (identity) batch-norm parameters, conv being the direct convolution of the
\* zero-padded input with the [OC, IC, k, k] weight tensor; with batch-norm
\* set, it equals pooling(activation(scale * conv + threshold)): the affine
\* is applied after the GEMM and before the activation, pooling after it.
C20_ForwardIsConvPipeline ==
    layer.pc = "forward_returned" =>
        LET conv == Conv(layer, layer.input_data)
        IN  /\ AffineIntegral(layer, conv) =>
                   layer.out = PipelineOfIntegral(layer, conv)
            /\ (~AffineIntegral(layer, conv) /\ ScalesThrough(layer.config))
                   => EqualsExactPipeline(layer, layer.out, conv)

\* the same where every affine value is an integer, as it is with the
\* default batch-norm parameters
ForwardIsConvPipelineWhenIntegral ==
    (layer.pc = "forward_returned"
        /\ AffineIntegral(layer, Conv(layer, layer.input_data))) =>
        layer.out = PipelineOfIntegral(layer, Conv(layer, layer.input_data))

\* C22: a TNNLayer constructed from a supplied weight tensor with any value
\* outside {-1,0,1} fails at construction; layer.weights and
\* layer.weights_mat only ever contain -1, 0, +1, equal to the supplied
\* values, after construction and after forward().
C22_InvalidWeightsRejected ==
    /\ (layer.pc \in {"init_raised", "constructed", "forward_returned",
                      "forward_raised"}
           /\ layer.weights_arg # None
           /\ \E x \in 1..Len(layer.weights_arg.data) :
                  layer.weights_arg.data[x] \notin {-1, 0, 1}) =>
          layer.pc = "init_raised"
    /\ layer.pc \in {"constructed", "forward_returned", "forward_raised"} =>
          /\ \A x \in 1..Len(layer.weights.data) :
                 layer.weights.data[x] \in {-1, 0, 1}
          /\ \A r \in 1..Rows(layer.weights_mat) :
                 \A c \in 1..Cols(layer.weights_mat) :
                     /\ layer.weights_mat[r][c] \in {-1, 0, 1}
                     /\ layer.weights_mat[r][c] =
                            layer.weights.data[
                                (r - 1) * Cols(layer.weights_mat) + c]
          /\ layer.weights_arg # None => layer.weights = layer.weights_arg

\* the same for supplied tensors whose values all lie in -128..127, where
\* astype(np.int8) changes nothing
InvalidInt8WeightsRejected ==
    (layer.pc \in {"init_raised", "constructed", "forward_returned",
                   "forward_raised"}
        /\ layer.weights_arg # None
        /\ \A x \in 1..Len(layer.weights_arg.data) :
               layer.weights_arg.data[x] \in -128..127) =>
        C22_InvalidWeightsRejected

----------------------------------------------------------------------------
(* 64-bit integers (numpy int64).  An int64 is kept as its two's-complement *)
(* bit pattern in four 16-bit limbs, least significant limb first, so that *)
(* additions wrap modulo 2^64 as numpy's do.  The same operators work on   *)
(* wider words, which hold exact sums.                                     *)

Limb == 2^16

\* the int64 of an integer v with -2^31 <= v < 2^31
Int64Of(v) ==
    IF v >= 0 THEN <<v % Limb, v \div Limb, 0, 0>>
    ELSE <<v % Limb, (v \div Limb) % Limb, Limb - 1, Limb - 1>>

IsNegative(x) == x[Len(x)] >= Limb \div 2

\* sign extension of x to n limbs
Extend(x, n) ==
    [k \in 1..n |-> IF k <= Len(x) THEN x[k]
                    ELSE IF IsNegative(x) THEN Limb - 1 ELSE 0]

RECURSIVE AddLimbs(_, _, _, _)
\* limbs k.. of x + y + carry; the carry out of the last limb is dropped
AddLimbs(x, y, k, carry) ==
    IF k > Len(x) THEN <<>>
    ELSE LET s == x[k] + y[k] + carry
         IN  <<s % Limb>> \o AddLimbs(x, y, k + 1, s \div Limb)

RECURSIVE LimbsLess(_, _, _)
\* unsigned comparison of limbs k, k - 1, .., 1
LimbsLess(x, y, k) ==
    IF k = 0 THEN FALSE
    ELSE IF x[k] # y[k] THEN x[k] < y[k]
    ELSE LimbsLess(x, y, k - 1)

\* signed x < y
Less(x, y) ==
    IF IsNegative(x) # IsNegative(y) THEN IsNegative(x)
    ELSE LimbsLess(x, y, Len(x))

\* -2**31 and 2**31 - 1
MinInt32 == <<0, Limb \div 2, Limb - 1, Limb - 1>>
MaxInt32 == <<Limb - 1, Limb \div 2 - 1, 0, 0>>

\* int(max(-2**31, min(2**31 - 1, result)))
Saturate32(result) ==
    IF Less(result, Extend(MinInt32, Len(result))) THEN MinInt32
    ELSE IF Less(Extend(MaxInt32, Len(result)), result) THEN MaxInt32
    ELSE SubSeq(result, 1, 4)

\* an addition that clamps its result to the signed 32-bit range
WrapAdd_Saturating(x, y) ==
    Extend(Saturate32(AddLimbs(Extend(x, Len(x) + 1), Extend(y, Len(x) + 1),
                               1, 0)), Len(x))

\* int64 addition, wrapping modulo 2^64
WrapAdd(x, y) == AddLimbs(x, y, 1, 0)

\* np.abs keeps the dtype of its argument (two limbs for int32, four for
\* int64): the negation wraps, abs(-2^31) = -2^31 on int32 and
\* abs(-2^63) = -2^63 on int64
np_abs(x) ==
    IF IsNegative(x)
        THEN AddLimbs([k \in 1..Len(x) |-> Limb - 1 - x[k]],
                      [k \in 1..Len(x) |-> IF k = 1 THEN 1 ELSE 0], 1, 0)
        ELSE x

RECURSIVE np_sum(_, _)
\* np.sum(data, dtype=np.int64) over the first n elements, each element
\* cast to int64 before it is added
np_sum(data, n) ==
    IF n = 0 THEN Int64Of(0)
    ELSE WrapAdd(np_sum(data, n - 1), Extend(data[n], 4))

Elements(data) == {data[k] : k \in 1..Len(data)}

np_max(data) ==
    CHOOSE v \in Elements(data) : \A u \in Elements(data) : ~Less(v, u)
np_min(data) ==
    CHOOSE v \in Elements(data) : \A u \in Elements(data) : ~Less(u, v)

----------------------------------------------------------------------------
(* The reduction unit (benchmark_golden.py).                               *)

reduce_sum(data) == Saturate32(np_sum(data, Len(data)))
reduce_max(data) == Extend(np_max(data), 4)
reduce_min(data) == Extend(np_min(data), 4)
reduce_abssum(data) ==
    Saturate32(np_sum([k \in 1..Len(data) |-> np_abs(data[k])], Len(data)))

ReductionOps == {"SUM", "MAX", "MIN", "ABSSUM"}

apply_reduction(data, op) ==
    CASE op = "SUM" -> reduce_sum(data)
      [] op = "MAX" -> reduce_max(data)
      [] op = "MIN" -> reduce_min(data)
      [] op = "ABSSUM" -> reduce_abssum(data)

RedMaxLen == 3

\* element values of the explored vectors: small values of both signs, the
\* two values around the 32-bit bounds and one value near the int64 bound
ReductionVals ==
    {Int64Of(-3), Int64Of(5), MinInt32, <<0, Limb \div 2, 0, 0>>,
     <<0, 0, 0, Limb \div 4>>}

\* the int32 of an integer v with -2^31 <= v < 2^31
Int32Of(v) == <<v % Limb, (v \div Limb) % Limb>>

\* element values of the explored int32 vectors: small values of both signs
\* and the two bounds of the type, -2^31 and 2^31 - 1
ReductionVals32 ==
    {Int32Of(-3), Int32Of(5), <<0, Limb \div 2>>,
     <<Limb - 1, Limb \div 2 - 1>>}

\* the explored vectors, of dtype int64 and of dtype int32
ReductionData ==
    UNION {[1..n -> ReductionVals] \cup [1..n -> ReductionVals32] :
              n \in 1..RedMaxLen}

CallReduction ==
    /\ fu.pc = "call" /\ fu.unit = "apply_reduction"
    /\ fu' = [pc |-> "return", unit |-> fu.unit, op |-> fu.op,
              data |-> fu.data, result |-> apply_reduction(fu.data, fu.op)]
    /\ UNCHANGED <<gemmVars, mac, codec, sysVars, layer, model>>

----------------------------------------------------------------------------
(* The nonlinear unit (benchmark_golden.py).  The unit computes in IEEE    *)
(* doubles; x / (1 << q_in) is exact, and the model keeps it as the        *)
(* integer 256 * x_float.  The values of the transcendental branches are   *)
(* those the functions return for the tabulated arguments.                 *)

\* 256 * x_float, for q_in <= 8
Scaled256(x, q_in) == x * 2^(8 - q_in)

\* int((1.0 / (1.0 + math.exp(-x_float))) * (1 << 15)) by 256 * x_float
SigmoidQ15 ==
    (-5118 :> 0) @@ (-512 :> 3906) @@ (-256 :> 8812) @@ (-2 :> 16320) @@
    (0 :> 16384) @@ (2 :> 16447) @@ (256 :> 23955) @@ (512 :> 28861) @@
    (5120 :> 32767)

\* int(math.log(x_float) * (1 << 15)) by 256 * x_float
LogQ15 ==
    (2 :> -158991) @@ (256 :> 0) @@ (512 :> 22713) @@ (5120 :> 98164)

\* arguments of the explored calls, as 256 * x_float
NonlinearArgs ==
    {-6000, -5122, -5120, -5118, -512, -256, -2, 0, 2, 256, 512, 5120}

\* fixed-point formats of the explored calls
QIn == {7, 8}

sigmoid_lut(x, q_in) ==
    IF Scaled256(x, q_in) > -20 * 256
        THEN SigmoidQ15[Scaled256(x, q_in)]
        ELSE 0

\* the log domain test without the non-positive branch for 0
log_lut_NegativeOnly(x, q_in) ==
    IF Scaled256(x, q_in) < 0 THEN -32768
    ELSE IF Scaled256(x, q_in) = 0 THEN -32767
    ELSE LogQ15[Scaled256(x, q_in)]

log_lut(x, q_in) ==
    IF Scaled256(x, q_in) <= 0 THEN -32768
    ELSE LogQ15[Scaled256(x, q_in)]

CallSigmoid ==
    /\ fu.pc = "call" /\ fu.unit = "sigmoid_lut"
    /\ fu' = [pc |-> "return", unit |-> fu.unit, x |-> fu.x,
              q_in |-> fu.q_in, result |-> sigmoid_lut(fu.x, fu.q_in)]
    /\ UNCHANGED <<gemmVars, mac, codec, sysVars, layer, model>>

CallLog ==
    /\ fu.pc = "call" /\ fu.unit = "log_lut"
    /\ fu' = [pc |-> "return", unit |-> fu.unit, x |-> fu.x,
              q_in |-> fu.q_in, result |-> log_lut(fu.x, fu.q_in)]
    /\ UNCHANGED <<gemmVars, mac, codec, sysVars, layer, model>>

----------------------------------------------------------------------------
(* The RSQRT unit (benchmark_golden.py, rsqrt_newton).  The explored       *)
(* positive inputs are the powers of 4, for which every floating-point     *)
(* operation of the function is exact: a double is kept as the dyadic      *)
(* number m * 2^e with m odd (or 0).                                       *)

RECURSIVE Dyadic(_, _)
\* the normal form of m * 2^e
Dyadic(m, e) ==
    IF m = 0 THEN [m |-> 0, e |-> 0]
    ELSE IF m % 2 = 0 THEN Dyadic(m \div 2, e + 1)
    ELSE [m |-> m, e |-> e]

DyMul(a, b) == Dyadic(a.m * b.m, a.e + b.e)

DySub(a, b) ==
    LET e0 == Min(a.e, b.e)
    IN  Dyadic(a.m * 2^(a.e - e0) - b.m * 2^(b.e - e0), e0)

\* 1.0 / math.sqrt(d) for d a power of 4
DyRsqrt(d) == [m |-> 1, e |-> -(d.e \div 2)]

\* int(d) for d >= 0
DyInt(d) == IF d.e >= 0 THEN d.m * 2^d.e ELSE d.m \div 2^(-d.e)

\* d < n for an integer n
DyLess(d, n) == IF d.e >= 0 THEN d.m * 2^d.e < n
                ELSE d.m < n * 2^(-d.e)

RECURSIVE NewtonRaphson(_, _, _)
\* lines 281-282: y = y * (1.5 - half_x * y * y), iterations times
NewtonRaphson(y, half_x, iterations) ==
    IF iterations = 0 THEN y
    ELSE NewtonRaphson(
             DyMul(y, DySub(Dyadic(3, -1), DyMul(DyMul(half_x, y), y))),
             half_x, iterations - 1)

rsqrt_newton(x, q_format, iterations) ==
    IF x <= 0 THEN 32767
    ELSE LET x_float == Dyadic(x, -q_format)
             y == NewtonRaphson(DyRsqrt(x_float),
                                DyMul(Dyadic(1, -1), x_float), iterations)
             scaled == DyMul(y, Dyadic(1, q_format))
         IN  IF DyLess(scaled, 32767) THEN DyInt(scaled) ELSE 32767

RsqrtMaxLog4 == 12

\* the explored inputs: non-positive values and the powers of 4 up to 2^24,
\* among them 2^16 (1.0 in Q16) and 256 .. 65536 of the benchmark's range
RsqrtInputs == {-65536, -1, 0} \cup {4^k : k \in 0..RsqrtMaxLog4}

Iterations == {0, 1, 2}

CallRsqrt ==
    /\ fu.pc = "call" /\ fu.unit = "rsqrt_newton"
    /\ fu' = [pc |-> "return", unit |-> fu.unit, x |-> fu.x,
              q_format |-> fu.q_format, iterations |-> fu.iterations,
              result |-> rsqrt_newton(fu.x, fu.q_format, fu.iterations)]
    /\ UNCHANGED <<gemmVars, mac, codec, sysVars, layer, model>>

----------------------------------------------------------------------------
(* The scalar units, each called once on one argument.                     *)

InitUnits ==
    /\ GemmIdle /\ MacIdle /\ CodecIdle /\ SysIdle /\ LayerIdle /\ ModelIdle
    /\ \/ \E op \in ReductionOps, data \in ReductionData :
              fu = [pc |-> "call", unit |-> "apply_reduction", op |-> op,
                    data |-> data]
       \/ \E u \in {"sigmoid_lut", "log_lut"}, q \in QIn,
             a \in NonlinearArgs :
              fu = [pc |-> "call", unit |-> u, x |-> a \div 2^(8 - q),
                    q_in |-> q]
       \/ \E x \in RsqrtInputs, it \in Iterations :
              fu = [pc |-> "call", unit |-> "rsqrt_newton", x |-> x,
                    q_format |-> 16, iterations |-> it]

NextUnits == CallReduction \/ CallSigmoid \/ CallLog \/ CallRsqrt

SpecUnits == InitUnits /\ [][NextUnits]_vars

----------------------------------------------------------------------------
(* Properties of the reduction unit.                                       *)

Reduced == fu.pc = "return" /\ fu.unit = "apply_reduction"

RECURSIVE ExactSum(_, _)
\* the exact integer sum of the first n elements, in a 96-bit word
ExactSum(data, n) ==
    IF n = 0 THEN Extend(Int64Of(0), 6)
    ELSE AddLimbs(ExactSum(data, n - 1), Extend(data[n], 6), 1, 0)

\* 2^31 as an int64
TwoTo31 == <<0, Limb \div 2, 0, 0>>

\* C13: reduce_sum(data) is the exact integer sum of data clamped to
\* [-2^31, 2^31 - 1], never a wrapped value; reduce([2^31, 2^31], sum) is
\* 2^31 - 1.
C13_ReduceSumSaturates ==
    (Reduced /\ fu.op = "SUM") =>
        /\ fu.result = Saturate32(ExactSum(fu.data, Len(fu.data)))
        /\ fu.data = <<TwoTo31, TwoTo31>> => fu.result = MaxInt32

\* v is the sign extension of an int64
FitsInt64(v) == Extend(SubSeq(v, 1, 4), Len(v)) = v

\* reduce_sum is the clamped exact sum whenever the exact sum is an int64
ReduceSumSaturatesWithinInt64 ==
    (Reduced /\ fu.op = "SUM"
        /\ FitsInt64(ExactSum(fu.data, Len(fu.data)))) =>
        /\ fu.result = Saturate32(ExactSum(fu.data, Len(fu.data)))
        /\ fu.data = <<TwoTo31, TwoTo31>> => fu.result = MaxInt32

\* the combination of two partial results, the value of one element, and
\* the step applied once to the combined total
Combine(op, a, b) ==
    CASE op \in {"SUM", "ABSSUM"} -> WrapAdd(a, b)
      [] op = "MAX" -> IF Less(a, b) THEN b ELSE a
      [] op = "MIN" -> IF Less(b, a) THEN b ELSE a
Leaf(op, v) == Extend(IF op = "ABSSUM" THEN np_abs(v) ELSE v, 4)
Finish(op, v) == IF op \in {"SUM", "ABSSUM"} THEN Saturate32(v) ELSE v

RECURSIVE ScanFold(_, _, _)
\* linear left-to-right scan over the first n elements
ScanFold(op, data, n) ==
    IF n = 1 THEN Leaf(op, data[1])
    ELSE Combine(op, ScanFold(op, data, n - 1), Leaf(op, data[n]))

RECURSIVE TreeFold(_, _, _, _)
\* balanced tree over the elements lo..hi
TreeFold(op, data, lo, hi) ==
    IF lo = hi THEN Leaf(op, data[lo])
    ELSE LET mid == (lo + hi) \div 2
         IN  Combine(op, TreeFold(op, data, lo, mid),
                     TreeFold(op, data, mid + 1, hi))

ScanReduce(data, op) == Finish(op, ScanFold(op, data, Len(data)))
TreeReduce(data, op) == Finish(op, TreeFold(op, data, 1, Len(data)))

\* C14: for each of sum, max, min and abssum the value of
\* apply_reduction(data, op) depends only on the multiset of elements:
\* every permutation of data gives the same value, and so do the linear
\* scan and the balanced tree over any permutation, saturation being
\* applied once to the total and never to an intermediate partial sum.
C14_ReductionOrderIndependent ==
    Reduced =>
        \A p \in Permutations(1..Len(fu.data)) :
            LET q == [k \in 1..Len(fu.data) |-> fu.data[p[k]]]
            IN  /\ apply_reduction(q, fu.op) = fu.result
                /\ ScanReduce(q, fu.op) = fu.result
                /\ TreeReduce(q, fu.op) = fu.result

\* a returned sum whose partial sums leave the 32-bit range while the total
\* is back inside it
C14_Witness ==
    /\ Reduced /\ fu.op = "SUM"
    /\ fu.data = <<TwoTo31, Int64Of(5), MinInt32>>
    /\ fu.result = Int64Of(5)

\* data is an array of dtype int32
IsInt32Array(data) == \A k \in 1..Len(data) : Len(data[k]) = 2

\* data is an array of dtype int64 whose elements are within the signed
\* 32-bit range
IsInt64ArrayOf32BitValues(data) ==
    \A k \in 1..Len(data) :
        Len(data[k]) = 4 /\ Extend(SubSeq(data[k], 1, 2), 4) = data[k]

RECURSIVE ExactAbsSum(_, _)
\* the exact sum of the absolute values of the first n elements, in a
\* 96-bit word
ExactAbsSum(data, n) ==
    IF n = 0 THEN Extend(Int64Of(0), 6)
    ELSE AddLimbs(ExactAbsSum(data, n - 1), np_abs(Extend(data[n], 6)), 1, 0)

\* C30: for every array of signed 32-bit integers, arrays that contain
\* -2^31 included, reduce_abssum(data) is never negative and equals
\* min(sum of |x_i|, 2^31 - 1), the absolute value of each element being
\* taken without 32-bit overflow.
C30_AbsSumNeverNegative ==
    (Reduced /\ fu.op = "ABSSUM" /\ IsInt32Array(fu.data)) =>
        /\ ~IsNegative(fu.result)
        /\ fu.result = Saturate32(ExactAbsSum(fu.data, Len(fu.data)))

\* reduce_abssum is the clamped exact sum of the absolute values when the
\* 32-bit values are held in an int64 array
AbsSumNeverNegativeOnInt64Arrays ==
    (Reduced /\ fu.op = "ABSSUM" /\ IsInt64ArrayOf32BitValues(fu.data)) =>
        /\ ~IsNegative(fu.result)
        /\ fu.result = Saturate32(ExactAbsSum(fu.data, Len(fu.data)))

\* reduce_abssum is the clamped exact sum of the absolute values of an int32
\* array that does not contain -2^31
AbsSumNeverNegativeWithoutMinimum ==
    (Reduced /\ fu.op = "ABSSUM" /\ IsInt32Array(fu.data)
        /\ \A k \in 1..Len(fu.data) : fu.data[k] # <<0, Limb \div 2>>) =>
        /\ ~IsNegative(fu.result)
        /\ fu.result = Saturate32(ExactAbsSum(fu.data, Len(fu.data)))

----------------------------------------------------------------------------
(* Properties of the nonlinear and RSQRT units.                            *)

\* C15: the domain edge cases return the documented sentinel and no error:
\* log_lut(x) = -32768 for every x <= 0, rsqrt_newton(x) = 0x7FFF for every
\* x <= 0, and sigmoid_lut(x) = 0 for every x with x / 2^q_in below -20.
C15_DomainSentinels ==
    (fu.pc = "return") =>
        /\ (fu.unit = "log_lut" /\ fu.x <= 0) => fu.result = -32768
        /\ (fu.unit = "rsqrt_newton" /\ fu.x <= 0) => fu.result = 32767
        /\ (fu.unit = "sigmoid_lut" /\ fu.x < -20 * 2^fu.q_in) =>
               fu.result = 0

\* log_lut has returned for the input 0
C15_Witness ==
    /\ fu.pc = "return" /\ fu.unit = "log_lut"
    /\ fu.x = 0 /\ fu.result = -32768

RECURSIVE SqrtPow4(_)
\* the square root of a power of 4
SqrtPow4(x) == IF x = 1 THEN 1 ELSE 2 * SqrtPow4(x \div 4)

Abs(v) == IF v < 0 THEN -v ELSE v

\* C16: for positive Q16 inputs x, rsqrt_newton(x) with 2 iterations, read
\* in Q16, is within 0.1% relative error of 1/sqrt(x / 2^16), that is
\* |result - 2^24 / sqrt(x)| <= 0.001 * 2^24 / sqrt(x), and the result
\* never exceeds 0x7FFF.
C16_RsqrtAccurate ==
    (fu.pc = "return" /\ fu.unit = "rsqrt_newton" /\ fu.x > 0
        /\ fu.iterations = 2) =>
        /\ fu.result <= 32767
        /\ Abs(fu.result * SqrtPow4(fu.x) - 2^24) <= 2^24 \div 1000

----------------------------------------------------------------------------
(* The tensor helpers of tnn_layer_model.py called on their own: im2col    *)
(* followed by col2im, and apply_pooling.  The call and its result are     *)
(* held in the variable layer.                                             *)

TenMaxDim == 4
TenMaxCh == 2
TenMaxKernel == 3
TenMaxStride == 3
TenMaxPad == 1

\* an integer tensor of shape (c, h, w) whose elements are all different
\* and none of them 0
CountingTensor(c, h, w) ==
    [ch \in 1..c |-> [y \in 1..h |-> [x \in 1..w |->
        ((ch - 1) * h + (y - 1)) * w + x]]]

\* the calls col2im(im2col(x, kernel, stride, padding), C, H, W) explored:
\* those in which every padded dimension holds at least one patch
RoundTripCalls ==
    {[pc |-> "call", op |-> "col2im_im2col",
      x |-> CountingTensor(a.c, a.h, a.w),
      kernel_size |-> a.k, stride |-> a.st, padding |-> a.pd] :
        a \in {b \in [c : 1..TenMaxCh, h : 1..TenMaxDim, w : 1..TenMaxDim,
                       k : 1..TenMaxKernel, st : 1..TenMaxStride,
                       pd : 0..TenMaxPad] :
                  b.k <= b.h + 2 * b.pd /\ b.k <= b.w + 2 * b.pd}}

TenMaxPool == 3

\* the calls apply_pooling(x, pooling, pool_size) explored, on integer
\* tensors
PoolingCalls ==
    {[pc |-> "call", op |-> "apply_pooling", x |-> x, pooling |-> a.pooling,
      pool_size |-> a.p] :
        a \in [pooling : PoolingTypes, p : 1..TenMaxPool],
        x \in UNION {{CountingTensor(b.c, b.h, b.w),
                      InputTensor(b.c, b.h, b.w)} :
                        b \in [c : 1..TenMaxCh, h : 1..TenMaxDim,
                               w : 1..TenMaxDim]}}

InitTensor ==
    /\ GemmIdle /\ MacIdle /\ CodecIdle /\ SysIdle /\ FuIdle /\ ModelIdle
    /\ layer \in RoundTripCalls \cup PoolingCalls

\* col2im(im2col(x, kernel, stride, padding), C, H, W): reshape raises
\* ValueError when the element counts differ
CallIm2colCol2im ==
    /\ layer.pc = "call" /\ layer.op = "col2im_im2col"
    /\ LET col == im2col(layer.x, layer.kernel_size, layer.stride,
                         layer.padding)
           shape == TensorShape(layer.x)
           fits == Rows(col) * Cols(col) = shape[1] * shape[2] * shape[3]
       IN  layer' = [layer EXCEPT !.pc = "return"]
                    @@ [col |-> col,
                        err |-> IF fits THEN "none" ELSE "ValueError",
                        out |-> IF fits
                                   THEN col2im(col, shape[1], shape[2],
                                               shape[3])
                                   ELSE None]
    /\ UNCHANGED notLayer

\* apply_pooling(x, pooling, pool_size) on an integer tensor
CallPooling ==
    /\ layer.pc = "call" /\ layer.op = "apply_pooling"
    /\ layer' = [layer EXCEPT !.pc = "return"]
                 @@ [out |-> apply_pooling(layer.x, layer.pooling,
                                           layer.pool_size, FALSE)]
    /\ UNCHANGED notLayer

NextTensor == CallIm2colCol2im \/ CallPooling

SpecTensor == InitTensor /\ [][NextTensor]_vars

\* C21 as stated: whenever the im2col result has C * H * W elements,
\* col2im(im2col(x, kernel, stride, padding), C, H, W) reproduces x exactly.
C21_RoundTripOnEqualCount ==
    (layer.pc = "return" /\ layer.op = "col2im_im2col"
        /\ Rows(layer.col) * Cols(layer.col) =
               Len(layer.x) * Len(layer.x[1]) * Len(layer.x[1][1])) =>
        layer.err = "none" /\ layer.out = layer.x

\* C21: col2im(im2col(x, kernel, stride, padding), C, H, W) reproduces x
\* exactly whenever padding = 0 and the im2col result has the shape
\* (C, H * W) (one 1 x 1 patch per element, as for kernel = 1, stride = 1)
\* or the shape (C * H * W, 1) (a single patch covering the whole input).
C21_RoundTripWithoutPadding ==
    (layer.pc = "return" /\ layer.op = "col2im_im2col" /\ layer.padding = 0
        /\ LET c == Len(layer.x)
               hw == Len(layer.x[1]) * Len(layer.x[1][1])
           IN  \/ Rows(layer.col) = c /\ Cols(layer.col) = hw
               \/ Rows(layer.col) = c * hw /\ Cols(layer.col) = 1) =>
        layer.err = "none" /\ layer.out = layer.x

\* a 2-channel 3 x 3 tensor has gone through im2col with kernel = 1,
\* stride = 1, padding = 0 and through col2im
C21_Witness ==
    /\ layer.pc = "return" /\ layer.op = "col2im_im2col"
    /\ layer.kernel_size = 1 /\ layer.stride = 1 /\ layer.padding = 0
    /\ TensorShape(layer.x) = <<2, 3, 3>>
    /\ layer.out = layer.x

\* element (y, x), 0-based, of the p x p window (wy, wx) of channel c
WindowElement(t, c, wy, wx, p, y, x) == t[c][wy * p + y + 1][wx * p + x + 1]

\* the sum of the window's elements
WindowSum(t, c, wy, wx, p) ==
    SumTo([y \in 1..p |->
              SumTo([x \in 1..p |->
                        WindowElement(t, c, wy, wx, p, y - 1, x - 1)], p)], p)

\* C24: apply_pooling with window size p on an integer tensor of shape
\* (C,H,W) returns a tensor of shape (C, floor(H/p), floor(W/p)) whose
\* element (c,y,x) is the maximum (MAX) or the average (AVG) of the window
\* rows y*p..y*p+p-1, columns x*p..x*p+p-1 of channel c; pooling kind NONE
\* returns the input unchanged.
C24_PoolingOverDisjointWindows ==
    (layer.pc = "return" /\ layer.op = "apply_pooling") =>
        LET t == layer.x
            p == layer.pool_size
            oh == Len(t[1]) \div p
            ow == Len(t[1][1]) \div p
        IN  IF layer.pooling = "none" THEN layer.out = t
            ELSE /\ Len(layer.out) = Len(t)
                 /\ \A c \in 1..Len(t) :
                        /\ Len(layer.out[c]) = oh
                        /\ \A y \in 1..oh :
                               /\ Len(layer.out[c][y]) = ow
                               /\ \A x \in 1..ow :
                                      LET v == layer.out[c][y][x]
                                      IN  IF layer.pooling = "max"
                                          THEN /\ \E a \in 0..(p - 1), b \in 0..(p - 1) :
                                                      v = WindowElement(t, c, y - 1, x - 1, p, a, b)
                                               /\ \A a \in 0..(p - 1), b \in 0..(p - 1) :
                                                      v >= WindowElement(t, c, y - 1, x - 1, p, a, b)
                                          ELSE v * p * p =
                                                  WindowSum(t, c, y - 1, x - 1, p)

\* the same with the average rounded toward zero to an integer
PoolingWithTruncatedAverage ==
    (layer.pc = "return" /\ layer.op = "apply_pooling") =>
        \/ layer.pooling # "avg" /\ C24_PoolingOverDisjointWindows
        \/ /\ layer.pooling = "avg"
           /\ Len(layer.out) = Len(layer.x)
           /\ \A c \in 1..Len(layer.out) :
                  /\ Len(layer.out[c]) = Len(layer.x[1]) \div layer.pool_size
                  /\ \A y \in 1..Len(layer.out[c]) :
                         /\ Len(layer.out[c][y]) =
                                Len(layer.x[1][1]) \div layer.pool_size
                         /\ \A x \in 1..Len(layer.out[c][y]) :
                                LET total == WindowSum(layer.x, c, y - 1, x - 1,
                                                       layer.pool_size)
                                    n == layer.pool_size * layer.pool_size
                                    v == layer.out[c][y][x]
                                IN  /\ (IF total >= 0 THEN v ELSE -v) >= 0
                                    /\ (IF total >= 0 THEN v * n ELSE -(v * n))
                                           <= (IF total >= 0 THEN total ELSE -total)
                                    /\ (IF total >= 0 THEN total ELSE -total)
                                           < (IF total >= 0 THEN v * n ELSE -(v * n)) + n

----------------------------------------------------------------------------
(* TNNModel (tnn_layer_model.py, lines 303-336): a list of layers and the  *)
(* forward() loop over it, one iteration per step.                         *)

ModelMaxLayers == 3

\* a layer configuration with stride 1, padding 0 and integer-valued
\* activation and pooling kinds
ModelConfig(h, w, ic, oc, k, activation, pooling) ==
    [input_height |-> h, input_width |-> w, input_channels |-> ic,
     output_channels |-> oc, kernel_size |-> k, stride |-> 1, padding |-> 0,
     activation |-> activation, pooling |-> pooling, pool_size |-> 2]

\* the configurations the layers of a model are drawn from; the output
\* shape of some is the input shape of others
ModelConfigs ==
    {ModelConfig(2, 2, 1, 2, 1, "relu", "none"),
     ModelConfig(2, 2, 2, 1, 2, "sign", "none"),
     ModelConfig(2, 2, 2, 2, 1, "none", "max"),
     ModelConfig(1, 1, 2, 1, 1, "none", "none"),
     ModelConfig(1, 1, 1, 2, 1, "relu", "none")}

\* TNNLayer(cfg): a constructed layer
ModelLayer(cfg) == LayerConstruct(cfg, PatternTensor(ConfigShape(cfg), 1))

\* the layer lists a model is built from, the empty one included
LayerLists ==
    UNION {[1..n -> {ModelLayer(cfg) : cfg \in ModelConfigs}] :
              n \in 0..ModelMaxLayers}

ModelInputs == {InputTensor(1, 2, 2), InputTensor(2, 2, 2)}

notModel == <<gemmVars, mac, codec, sysVars, layer, fu>>

\* TNNModel(layers).forward(input_data) has been entered: lines 328-329
InitModel ==
    /\ GemmIdle /\ MacIdle /\ CodecIdle /\ SysIdle /\ LayerIdle /\ FuIdle
    /\ \E layers \in LayerLists, input_data \in ModelInputs :
          model = [pc |-> "loop", layers |-> layers,
                   input_data |-> input_data, x |-> input_data,
                   all_stats |-> <<>>, i |-> 0, err |-> "none"]

\* the record tagged with the index after the loop's own
TagStats_NextIndex(st, idx) == st @@ [layer_index |-> idx + 1]

\* line 333: stats['layer_index'] = i
TagStats(st, idx) == st @@ [layer_index |-> idx]

\* one iteration of the loop, lines 331-334; an exception of layer.forward
\* leaves TNNModel.forward
ModelLayerStep ==
    /\ model.pc = "loop" /\ model.i < Len(model.layers)
    /\ LET r == LayerForward(model.layers[model.i + 1], model.x)
       IN  model' =
               IF r.err # "none"
                   THEN [model EXCEPT !.pc = "raised", !.err = r.err]
               ELSE [model EXCEPT
                        !.x = r.out,
                        !.all_stats =
                            Append(@, TagStats(r.stats, model.i)),
                        !.i = @ + 1]
    /\ UNCHANGED notModel

\* line 336: return x, all_stats
ModelReturn ==
    /\ model.pc = "loop" /\ model.i = Len(model.layers)
    /\ model' = [model EXCEPT !.pc = "returned"]
    /\ UNCHANGED notModel

NextModel == ModelLayerStep \/ ModelReturn

SpecModel == InitModel /\ [][NextModel]_vars

RECURSIVE ChainInput(_, _, _)
\* the tensor layer number n (from 1) receives when the layers are applied
\* in list order, each to the output of the one before; None after a layer
\* that fails
ChainInput(layers, input_data, n) ==
    IF n = 1 THEN input_data
    ELSE LET before == ChainInput(layers, input_data, n - 1)
         IN  IF before = None THEN None
             ELSE LayerForward(layers[n - 1], before).out

\* layer number n is configured for the tensor it receives
AcceptsInput(layers, input_data, n) ==
    LET cfg == layers[n].config
        t == ChainInput(layers, input_data, n)
    IN  t # None /\ TensorShape(t) = <<cfg.input_channels, cfg.input_height,
                                        cfg.input_width>>

\* C23: TNNModel.forward applies the layers in list order, each to the
\* output tensor of the one before, and returns one statistics record per
\* layer, in layer order, the i-th carrying layer_index = i and that
\* layer's own total_macs and zero_skipped; a layer whose configured input
\* shape differs from the tensor it receives stops the chain with an error
\* and no output.
C23_ModelChainsLayers ==
    /\ model.pc \in {"loop", "returned"} =>
          /\ Len(model.all_stats) = model.i
          /\ model.x = ChainInput(model.layers, model.input_data, model.i + 1)
          /\ \A n \in 1..model.i :
                 LET own == LayerForward(
                                model.layers[n],
                                ChainInput(model.layers, model.input_data, n))
                 IN  /\ AcceptsInput(model.layers, model.input_data, n)
                     /\ model.all_stats[n].layer_index = n - 1
                     /\ model.all_stats[n].total_macs = own.stats.total_macs
                     /\ model.all_stats[n].zero_skipped =
                            own.stats.zero_skipped
    /\ model.pc = "returned" => model.i = Len(model.layers)
    /\ model.pc = "raised" =>
          /\ model.err = "AssertionError"
          /\ ~AcceptsInput(model.layers, model.input_data, model.i + 1)
          /\ \A n \in 1..model.i :
                 AcceptsInput(model.layers, model.input_data, n)

\* a model of three layers has returned the output of its last layer
C23_Witness ==
    /\ model.pc = "returned" /\ Len(model.layers) = 3
    /\ Len(model.all_stats) = 3 /\ model.all_stats[3].layer_index = 2
    /\ model.all_stats[1].total_macs # model.all_stats[2].total_macs

====
